---------------------------- MODULE Spec2Model ----------------------------
(***************************************************************************)
(* A model of the IRon agent: the intermediate representation (ir), the    *)
(* deterministic router, the per-message orchestration pipeline            *)
(* (cmd/agent/main.go) and the hybrid task scheduler.                      *)
(*                                                                         *)
(* Go strings that the code inspects character by character (message       *)
(* texts, tool names) are sequences of one-character strings; strings the  *)
(* code only compares or passes on are TLA+ strings.  The JSON object of a *)
(* tool request's arguments is the set of its <<key, value>> pairs.        *)
(***************************************************************************)
EXTENDS Integers, Sequences, FiniteSets, TLC

VARIABLES
    pin,        \* pure-function harness: the call's input
    pout,       \* pure-function harness: the call's result
    sessions,   \* store.SessionStore: the entry of the sender's session key
    turn,       \* the handleMessage goroutine of the message in hand
    obs,        \* what the turn has done so far, as seen from outside
    sched,      \* scheduler.Scheduler: clock, store, cron engine, indices
    run,        \* the runTask call of the job that is firing
    conc        \* goroutines that share a store, an index or a chat

vars      == <<pin, pout, sessions, turn, obs, sched, run, conc>>

-----------------------------------------------------------------------------
(* Bounds of the model *)

\* longest message payload, in tokens, the router is tried on
MaxTokens == 3

\* most tool requests in a scheduled job
MaxTools == 2

\* most targets of a scheduled job
MaxTargets == 2

\* most schedule requests the scheduling tool receives
MaxOneShots == 2

\* last reading of the clock
MaxClock == 1

\* most requests the schedule_job tool receives
MaxJobs == 2

\* most goroutines that share one store or one index
MaxGoroutines == 2

\* most awaited calls of a turn that show the typing indicator
MaxCalls == 3

\* most modules of an engine, the passthrough module included
MaxModules == 3

\* main.go line 239: the cap of the continuation loop
MaxContinuations == 5

-----------------------------------------------------------------------------
(* strings *)

\* unicode.IsSpace, on the characters of the model
IsSpace(c) == c \in {" ", "\t", "\n", "\r"}

RECURSIVE TrimLeft(_)
TrimLeft(s) ==
    IF Len(s) > 0 /\ IsSpace(s[1]) THEN TrimLeft(Tail(s)) ELSE s

RECURSIVE TrimRight(_)
TrimRight(s) ==
    IF Len(s) > 0 /\ IsSpace(s[Len(s)])
    THEN TrimRight(SubSeq(s, 1, Len(s) - 1))
    ELSE s

\* strings.TrimSpace
TrimSpace(s) == TrimRight(TrimLeft(s))

ToLowerChar(c) ==
    LET upper == <<"A","B","C","D","E","F","G","H","I","J","K","L","M",
                   "N","O","P","Q","R","S","T","U","V","W","X","Y","Z">>
        lower == <<"a","b","c","d","e","f","g","h","i","j","k","l","m",
                   "n","o","p","q","r","s","t","u","v","w","x","y","z">>
    IN  IF \E i \in 1..26 : upper[i] = c
        THEN lower[CHOOSE i \in 1..26 : upper[i] = c]
        ELSE c

\* strings.ToLower
ToLower(s) == [i \in 1..Len(s) |-> ToLowerChar(s[i])]

\* strings.HasPrefix
HasPrefix(s, p) == Len(s) >= Len(p) /\ SubSeq(s, 1, Len(p)) = p

\* strings.Index: the first position of sep in s, 0 when there is none
Index(s, sep) ==
    LET at == {i \in 1..(Len(s) - Len(sep) + 1) :
                  SubSeq(s, i, i + Len(sep) - 1) = sep}
    IN  IF at = {} THEN 0 ELSE CHOOSE i \in at : \A j \in at : i <= j

\* strings.Contains
Contains(s, sub) == Len(sub) = 0 \/ Index(s, sub) > 0

\* strings.SplitN(s, sep, 2)
SplitN2(s, sep) ==
    LET i == Index(s, sep)
    IN  IF i = 0 THEN <<s>>
        ELSE <<SubSeq(s, 1, i - 1), SubSeq(s, i + Len(sep), Len(s))>>

\* strings.Fields: the maximal runs of non-space characters
RECURSIVE Fields(_)
Fields(s) ==
    LET t == TrimLeft(s)
        ends == {i \in 1..Len(t) : IsSpace(t[i])}
        stop == IF ends = {} THEN Len(t) + 1
                ELSE CHOOSE i \in ends : \A j \in ends : i <= j
    IN  IF Len(t) = 0 THEN <<>>
        ELSE <<SubSeq(t, 1, stop - 1)>> \o Fields(SubSeq(t, stop, Len(t)))

\* strings.Join
RECURSIVE Join(_, _)
Join(parts, sep) ==
    IF Len(parts) = 0 THEN <<>>
    ELSE IF Len(parts) = 1 THEN parts[1]
    ELSE parts[1] \o sep \o Join(Tail(parts), sep)

\* the string literals of the code, as sequences of characters
Lit ==
    [slashhelp |-> <<"/","h","e","l","p">>,
     help |-> <<"h","e","l","p">>,
     ping |-> <<"p","i","n","g">>,
     nota_colon |-> <<"n","o","t","a",":">>,
     note_colon |-> <<"n","o","t","e",":">>,
     nota_space |-> <<"n","o","t","a"," ">>,
     note_space |-> <<"n","o","t","e"," ">>,
     list_space |-> <<"l","i","s","t"," ">>,
     plus_eq |-> <<"+","=">>,
     minus_eq |-> <<"-","=">>,
     question |-> <<"?">>,
     notes_append |-> <<"n","o","t","e","s","_","a","p","p","e","n","d">>,
     list_add |-> <<"l","i","s","t","_","a","d","d">>,
     list_remove |-> <<"l","i","s","t","_","r","e","m","o","v","e">>,
     list_show |-> <<"l","i","s","t","_","s","h","o","w">>,
     schedule |-> <<"s","c","h","e","d","u","l","e">>,
     schedule_job |-> <<"s","c","h","e","d","u","l","e","_","j","o","b">>,
     nosuch |-> <<"n","o","s","u","c","h">>,
     new |-> <<"/","n","e","w">>,
     tools |-> <<"/","t","o","o","l","s">>,
     bang |-> <<"!">>,
     slash_cd |-> <<"/","c","d"," ">>,
     cd |-> <<"c","d"," ">>,
     andand |-> <<"&","&">>,
     dir |-> <<"/","d">>]

-----------------------------------------------------------------------------
(* internal/ir *)

ActionActNow        == "act_now"
ActionSchedule      == "schedule"
ActionAsk           == "ask"
ActionDefer         == "defer"
ActionListReminders == "list_reminders"

RiskNone   == "none"
RiskLow    == "low"
RiskMedium == "medium"
RiskHigh   == "high"

\* the error value nil
Nil == "nil"

\* ir.Packet; Confidence is kept in tenths
Packet(action, intent, risk, when, tools, confidence) ==
    [Action |-> action, Intent |-> intent, Risk |-> risk, When |-> when,
     Tools |-> tools, Confidence |-> confidence]

ZeroPacket == Packet("", "", "", "", <<>>, 0)

\* ir.ToolRequest
ToolRequest(name, args) == [Name |-> name, Args |-> args]

\* a *ir.Packet: nil, or a pointer to p
NilIR      == [isNil |-> TRUE, p |-> ZeroPacket]
PtrIR(p)   == [isNil |-> FALSE, p |-> p]

\* ir.Response
Response(reply, needProcess, irp) ==
    [Reply |-> reply, NeedProcess |-> needProcess, IR |-> irp]

ZeroResponse == Response("", FALSE, NilIR)

ValidateDropsListReminders(p) ==
    IF p.Action \notin {ActionActNow, ActionSchedule, ActionAsk, ActionDefer}
    THEN "invalid action"
    ELSE IF p.Risk \notin {RiskNone, RiskLow, RiskMedium, RiskHigh, ""}
    THEN "invalid risk"
    ELSE Nil

\* Packet.Validate: the error it returns, Nil for none
Validate(p) ==
    IF p.Action \notin {ActionActNow, ActionSchedule, ActionAsk, ActionDefer,
                        ActionListReminders}
    THEN "invalid action"
    ELSE IF p.Risk \notin {RiskNone, RiskLow, RiskMedium, RiskHigh, ""}
    THEN "invalid risk"
    ELSE Nil

-----------------------------------------------------------------------------
(* JSON texts, as far as Response.UnmarshalJSON tells them apart *)

PacketFields == {"Action", "Intent", "Risk", "When", "Tools", "Confidence"}

\* a string- or boolean-valued member: absent, a value of the member's type,
\* or a value of another type; zero is the zero value of the member's type
JNone(zero)    == [present |-> FALSE, ok |-> FALSE, v |-> zero]
JVal(v)        == [present |-> TRUE, ok |-> TRUE, v |-> v]
JBad(zero)     == [present |-> TRUE, ok |-> FALSE, v |-> zero]

\* the member "ir": absent, null, an object giving the packet members in
\* has, or a value that is neither (a string, an array, a number)
JNoIR          == [present |-> FALSE, kind |-> "absent", has |-> {}, v |-> ZeroPacket]
JNullIR        == [present |-> TRUE, kind |-> "null", has |-> {}, v |-> ZeroPacket]
JBadIR         == [present |-> TRUE, kind |-> "mistyped", has |-> {}, v |-> ZeroPacket]
JPacket(has, p) ==
    [present |-> TRUE, kind |-> "object", has |-> has, v |-> p]

\* a backend text: "invalid" is no JSON at all, "scalar" is JSON that is no
\* object (a string, an array, a number), "object" is a JSON object (or null)
ObjectDoc(reply, irm, needProcess, needProcees) ==
    [kind |-> "object", reply |-> reply, ir |-> irm,
     needProcess |-> needProcess, needProcees |-> needProcees]

InvalidDoc ==
    [ObjectDoc(JNone(""), JNoIR, JNone(FALSE), JNone(FALSE)) EXCEPT !.kind = "invalid"]
ScalarDoc ==
    [ObjectDoc(JNone(""), JNoIR, JNone(FALSE), JNone(FALSE)) EXCEPT !.kind = "scalar"]

\* json.Unmarshal(v, &r.IR): null clears the pointer; an object fills the
\* packet the pointer refers to (a fresh one when it is nil), leaving the
\* members the object does not give; any other value allocates and fails
UnmarshalIR(irp, m) ==
    IF ~m.present THEN irp
    ELSE IF m.kind = "null" THEN NilIR
    ELSE LET old == IF irp.isNil THEN ZeroPacket ELSE irp.p
         IN  IF m.kind = "object"
             THEN PtrIR(Packet(
                      IF "Action" \in m.has THEN m.v.Action ELSE old.Action,
                      IF "Intent" \in m.has THEN m.v.Intent ELSE old.Intent,
                      IF "Risk" \in m.has THEN m.v.Risk ELSE old.Risk,
                      IF "When" \in m.has THEN m.v.When ELSE old.When,
                      IF "Tools" \in m.has THEN m.v.Tools ELSE old.Tools,
                      IF "Confidence" \in m.has THEN m.v.Confidence
                                                ELSE old.Confidence))
             ELSE PtrIR(old)

UnmarshalBool(old, m) == IF m.present /\ m.ok THEN m.v ELSE old

UnmarshalNeedProcessLegacyOnly(old, doc) ==
    IF doc.needProcees.present
    THEN UnmarshalBool(old, doc.needProcees)
    ELSE old

\* ir.go lines 59-63: the legacy key is looked up first, then needProcess
UnmarshalNeedProcess(old, doc) ==
    IF doc.needProcees.present
    THEN UnmarshalBool(old, doc.needProcees)
    ELSE IF doc.needProcess.present
    THEN UnmarshalBool(old, doc.needProcess)
    ELSE old

\* json.Unmarshal(data, &r) with Response.UnmarshalJSON: the error and the
\* receiver afterwards
UnmarshalJSON(r, doc) ==
    IF doc.kind # "object"
    THEN [err |-> "json error", r |-> r]
    ELSE [err |-> Nil,
          r |-> Response(
                  IF doc.reply.present /\ doc.reply.ok THEN doc.reply.v
                                                        ELSE r.Reply,
                  UnmarshalNeedProcess(r.NeedProcess, doc),
                  UnmarshalIR(r.IR, doc.ir))]

-----------------------------------------------------------------------------
(* internal/router *)


\* a (*ir.Packet, bool) result
NoRoute      == [ok |-> FALSE, packet |-> NilIR]
Routed(p)    == [ok |-> TRUE, packet |-> PtrIR(p)]

\* router.go lines 50-51: the prefixes of the note shorthand
HasNotePrefix(lower) ==
    \/ HasPrefix(lower, Lit.nota_colon) \/ HasPrefix(lower, Lit.note_colon)
    \/ HasPrefix(lower, Lit.nota_space) \/ HasPrefix(lower, Lit.note_space)

\* router.go lines 53-63: the content of a note, cut at the first ":" of
\* the text or, when the text has none, at its first space
NoteContent(text) ==
    IF Len(SplitN2(text, <<":">>)) = 2
    THEN TrimSpace(SplitN2(text, <<":">>)[2])
    ELSE IF Len(SplitN2(text, <<" ">>)) = 2
    THEN TrimSpace(SplitN2(text, <<" ">>)[2])
    ELSE <<>>

\* router.go lines 87-101: bucket, operator and item of the list shorthand
ListParts(text) == Fields(SubSeq(text, 6, Len(text)))
ListItem(parts) ==
    IF Len(parts) > 2 THEN Join(SubSeq(parts, 3, Len(parts)), <<" ">>) ELSE <<>>

\* router.go lines 106-116: the tool of a list operator, <<>> for none
ListToolName(op) ==
    IF op = Lit.plus_eq THEN Lit.list_add
    ELSE IF op = Lit.minus_eq THEN Lit.list_remove
    ELSE IF op = Lit.question THEN Lit.list_show
    ELSE <<>>

ListIntent(op) ==
    IF op = Lit.plus_eq THEN "list.add"
    ELSE IF op = Lit.minus_eq THEN "list.remove"
    ELSE IF op = Lit.question THEN "list.show"
    ELSE ""

HelpPacket ==
    Packet(ActionActNow, "help", RiskNone, "",
           <<ToolRequest(Lit.help, {})>>, 10)
PingPacket == Packet(ActionActNow, "ping", RiskNone, "", <<>>, 10)
NotePacket(content) ==
    Packet(ActionActNow, "notes.append", RiskLow, "",
           <<ToolRequest(Lit.notes_append, {<<"content", content>>})>>, 10)
ListPacket(op, bucket, item) ==
    Packet(ActionActNow, ListIntent(op), RiskLow, "",
           <<ToolRequest(ListToolName(op),
                         {<<"item", item>>, <<"list", bucket>>})>>, 10)

RouteTrimmed(text, lower) ==
    IF lower = Lit.slashhelp \/ lower = Lit.help THEN Routed(HelpPacket)
    ELSE IF lower = Lit.ping THEN Routed(PingPacket)
    ELSE IF HasNotePrefix(lower) /\ NoteContent(text) # <<>>
    THEN Routed(NotePacket(NoteContent(text)))
    ELSE IF /\ HasPrefix(lower, Lit.list_space)
            /\ Len(ListParts(text)) >= 2
            /\ ListToolName(ListParts(text)[2]) # <<>>
    THEN Routed(ListPacket(ListParts(text)[2], ListParts(text)[1],
                           ListItem(ListParts(text))))
    ELSE NoRoute

RouteNoPing(text) ==
    IF ToLower(TrimSpace(text)) = Lit.ping THEN NoRoute
    ELSE RouteTrimmed(TrimSpace(text), ToLower(TrimSpace(text)))

\* Router.Route
Route(text) == RouteTrimmed(TrimSpace(text), ToLower(TrimSpace(text)))

\* Router.GenerateReply
GenerateReply(packet) ==
    IF packet.Intent = "help"
    THEN "Available commands: note: <text>, ping, or speak naturally."
    ELSE IF packet.Intent = "ping" THEN "Pong!"
    ELSE IF packet.Intent = "notes.append" THEN "Note saved."
    ELSE "Command processed."

-----------------------------------------------------------------------------
(* The inputs the pure functions are tried on *)

\* what follows the start of a message text: up to n tokens
RECURSIVE Payloads(_)
Payloads(n) ==
    LET tokens == {<<"a">>, <<"b">>, <<" ">>, <<":">>, <<"+","=">>, <<"-","=">>,
                   <<"?">>}
    IN  IF n = 0 THEN {<<>>}
        ELSE Payloads(n - 1) \cup {p \o t : p \in Payloads(n - 1), t \in tokens}

\* the texts Route is tried on: a start, then a payload
Texts ==
    LET heads == {<<"/","h","e","l","p">>,
                  <<"h","e","l","p">>,
                  <<"H","E","L","P">>,
                  <<"p","i","n","g">>,
                  <<"P","i","n","g">>,
                  <<"n","o","t","e",":">>,
                  <<"N","o","t","e",":">>,
                  <<"n","o","t","a",":">>,
                  <<"N","O","T","A",":">>,
                  <<"n","o","t","e"," ">>,
                  <<"N","o","t","a"," ">>,
                  <<"n","o","t","e">>,
                  <<"l","i","s","t"," ">>,
                  <<"L","i","s","t"," ">>,
                  <<"x">>,
                  <<" ","n","o","t","e",":"," ">>}
    IN  {h \o p : h \in heads, p \in Payloads(MaxTokens)}

PureInput(op, text, packet, r, doc) ==
    [op |-> op, text |-> text, packet |-> packet, r |-> r, doc |-> doc,
     tools |-> {}, aliases |-> {}]

PureOutput(done, route, packet, err, r) ==
    [done |-> done, route |-> route, packet |-> packet, err |-> err, r |-> r,
     tool |-> <<>>]

\* the calls that are tried: Route on the texts; Validate on packets of
\* every valid and some invalid action and risk; UnmarshalJSON on backend
\* texts, with a fresh Response and with one an earlier decode has filled
\* as the receiver
PureInputs ==
    LET someTools == {<<>>, <<ToolRequest(Lit.notes_append, {<<"content", <<"a">> >>})>>}
        packets ==
            {Packet(a, i, r, w, t, c) :
                a \in {ActionActNow, ActionSchedule, ActionAsk, ActionDefer,
                       ActionListReminders, "", "invalid", "ACT_NOW"},
                i \in {"", "greet"},
                r \in {RiskNone, RiskLow, RiskMedium, RiskHigh, "", "extreme", "LOW"},
                w \in {"", "0 9 * * *"},
                t \in someTools,
                c \in {-1, 0, 7, 20}}
        irMembers ==
            {JNoIR, JNullIR, JBadIR}
            \cup {JPacket(h, Packet(a, "greet", RiskLow, "", t, 7)) :
                    h \in {PacketFields, PacketFields \ {"Tools"}, {"Action"}},
                    a \in {ActionActNow, "invalid"},
                    t \in someTools}
        boolMembers == {JNone(FALSE), JVal(TRUE), JVal(FALSE), JBad(FALSE)}
        docs ==
            {InvalidDoc, ScalarDoc}
            \cup {ObjectDoc(rp, m, np, legacy) :
                    rp \in {JNone(""), JVal("hi"), JBad("")},
                    m \in irMembers, np \in boolMembers, legacy \in boolMembers}
        receivers ==
            {ZeroResponse,
             Response("old", TRUE,
                      PtrIR(Packet("invalid", "old", RiskHigh, "",
                                   <<ToolRequest(Lit.list_add, {})>>, 3))),
             Response("old", FALSE, NilIR)}
        list == <<"l","i","s","t">>
        listAdd == <<"l","i","s","t","_","a","d","d">>
        notes == <<"n","o","t","e","s">>
        \* Registry.aliases: each alias has one target, registered or not
        aliasMaps ==
            {{<<list, l>> : l \in ls} \cup {<<<<"a","d","d">>, a>> : a \in as} :
                ls \in {{}, {listAdd}, {notes}},
                as \in {{}, {listAdd}, {<<"g","o","n","e">>}}}
        names == {list, <<"L","i","S","t">>, listAdd, <<"a","d","d">>,
                  <<"n","o","t","e","s","_","a","l","l">>, <<"x">>, <<>>}
    IN  {PureInput("Route", t, ZeroPacket, ZeroResponse, InvalidDoc) : t \in Texts}
        \cup {[PureInput("Get", n, ZeroPacket, ZeroResponse, InvalidDoc)
                 EXCEPT !.tools = ts, !.aliases = al] :
                n \in names, ts \in SUBSET {list, listAdd, notes}, al \in aliasMaps}
        \cup {PureInput("Validate", <<>>, p, ZeroResponse, InvalidDoc) : p \in packets}
        \cup {PureInput("UnmarshalJSON", <<>>, ZeroPacket, r, d) :
                r \in receivers, d \in docs}

-----------------------------------------------------------------------------
(* Claims about the pure functions, checked under SpecPure *)

\* the closed enumerations of C3
ValidActions == {ActionActNow, ActionSchedule, ActionAsk, ActionDefer,
                 ActionListReminders}
ValidRisks   == {RiskNone, RiskLow, RiskMedium, RiskHigh, ""}

\* C3: validate returns an error for every packet whose action is outside
\* the five actions, an error for every packet whose risk is outside the
\* four risks and "", nil for each of the 25 valid combinations whatever the
\* other members are, and leaves the packet as it was.
C3_ValidateClosedEnums ==
    (pin.op = "Validate" /\ pout.done) =>
        /\ (pin.packet.Action \notin ValidActions => pout.err # Nil)
        /\ (pin.packet.Risk \notin ValidRisks => pout.err # Nil)
        /\ (pin.packet.Action \in ValidActions /\ pin.packet.Risk \in ValidRisks
              => pout.err = Nil)
        /\ pout.packet = pin.packet

C3_Witness ==
    /\ pin.op = "Validate" /\ pout.done
    /\ pin.packet.Action = ActionListReminders /\ pin.packet.Risk = ""
    /\ pin.packet.Confidence = 20 /\ pin.packet.Tools # <<>>
    /\ pout.err = Nil

\* C5: decoding gives NeedProcess = b whether b comes under the key
\* needProcess or under the legacy key needProcees.
C5_BothKeysDecode ==
    (pin.op = "UnmarshalJSON" /\ pout.done /\ pin.doc.kind = "object") =>
        \A b \in BOOLEAN :
            /\ (pin.doc.needProcess = JVal(b) /\ ~pin.doc.needProcees.present
                  => pout.err = Nil /\ pout.r.NeedProcess = b)
            /\ (pin.doc.needProcees = JVal(b) /\ ~pin.doc.needProcess.present
                  => pout.err = Nil /\ pout.r.NeedProcess = b)

C5_Witness ==
    /\ pin.op = "UnmarshalJSON" /\ pout.done
    /\ pin.doc.kind = "object"
    /\ pin.doc.needProcess = JVal(TRUE) /\ ~pin.doc.needProcees.present
    /\ ~pin.r.NeedProcess
    /\ pout.r.NeedProcess

\* the content of a note as C10 reads it: what follows "note:" or "nota:",
\* and in the space form the whole text after the first space
ClaimedNoteContent(text) ==
    IF HasPrefix(ToLower(text), Lit.nota_colon) \/ HasPrefix(ToLower(text), Lit.note_colon)
    THEN TrimSpace(SubSeq(text, 6, Len(text)))
    ELSE IF Len(SplitN2(text, <<" ">>)) = 2
    THEN TrimSpace(SplitN2(text, <<" ">>)[2])
    ELSE <<>>

\* C10: "note: C", "nota: C" and the space form "note C" (prefix in any
\* case, C not empty) are routed with intent notes.append and exactly one
\* tool request, to notes_append, with the argument {"content": C}, C
\* trimmed; in the space form C is the whole text after the first space.
C10_NoteShorthand ==
    (/\ pin.op = "Route" /\ pout.done
     /\ HasNotePrefix(ToLower(TrimSpace(pin.text)))
     /\ ClaimedNoteContent(TrimSpace(pin.text)) # <<>>) =>
        /\ pout.route.ok
        /\ ~pout.route.packet.isNil
        /\ pout.route.packet.p.Intent = "notes.append"
        /\ pout.route.packet.p.Tools =
             <<ToolRequest(Lit.notes_append,
                 {<<"content", ClaimedNoteContent(TrimSpace(pin.text))>>})>>

-----------------------------------------------------------------------------
(* internal/tools: the registry as main() fills it *)


\* Registry.tools after DefaultRegistry() and the Register calls of main()
RegisteredTools ==
    {<<"h","t","t","p","_","f","e","t","c","h">>,
     <<"s","h","e","l","l","_","e","x","e","c">>,
     <<"d","o","c","k","e","r","_","e","x","e","c">>,
     <<"c","o","d","e","_","e","x","e","c">>,
     <<"s","c","h","e","d","u","l","e">>,
     <<"s","c","h","e","d","u","l","e","_","j","o","b">>,
     <<"l","i","s","t","_","r","e","m","i","n","d","e","r","s">>,
     <<"n","o","t","e","s","_","a","p","p","e","n","d">>,
     <<"n","o","t","e","s","_","s","h","o","w">>,
     <<"n","o","t","e","s","_","c","l","e","a","r">>,
     <<"l","i","s","t","_","a","d","d">>,
     <<"l","i","s","t","_","r","e","m","o","v","e">>,
     <<"l","i","s","t","_","s","h","o","w">>,
     <<"l","i","s","t","_","l","i","s","t","s">>}

\* Registry.aliases after the RegisterAlias calls, as <<alias, target>>
RegisteredAliases ==
    {<<<<"f","e","t","c","h">>, <<"h","t","t","p","_","f","e","t","c","h">>>>,
     <<<<"h","t","t","p">>, <<"h","t","t","p","_","f","e","t","c","h">>>>,
     <<<<"c","u","r","l">>, <<"h","t","t","p","_","f","e","t","c","h">>>>,
     <<<<"s","h","e","l","l">>, <<"s","h","e","l","l","_","e","x","e","c">>>>,
     <<<<"c","m","d">>, <<"s","h","e","l","l","_","e","x","e","c">>>>,
     <<<<"d","o","c","k","e","r">>, <<"d","o","c","k","e","r","_","e","x","e","c">>>>,
     <<<<"c","o","d","e">>, <<"c","o","d","e","_","e","x","e","c">>>>,
     <<<<"r","u","n","_","c","o","d","e">>, <<"c","o","d","e","_","e","x","e","c">>>>,
     <<<<"r","e","m","i","n","d">>, <<"s","c","h","e","d","u","l","e">>>>,
     <<<<"t","i","m","e","r">>, <<"s","c","h","e","d","u","l","e">>>>,
     <<<<"c","r","o","n">>, <<"s","c","h","e","d","u","l","e","_","j","o","b">>>>,
     <<<<"j","o","b">>, <<"s","c","h","e","d","u","l","e","_","j","o","b">>>>,
     <<<<"t","a","s","k">>, <<"s","c","h","e","d","u","l","e","_","j","o","b">>>>,
     <<<<"r","e","m","i","n","d","e","r","s">>, <<"l","i","s","t","_","r","e","m","i","n","d","e","r","s">>>>,
     <<<<"l","i","s","t","_","r","e","m","i","n","d","e","r","s">>, <<"l","i","s","t","_","r","e","m","i","n","d","e","r","s">>>>,
     <<<<"n","o","t","e">>, <<"n","o","t","e","s","_","a","p","p","e","n","d">>>>,
     <<<<"n","o","t","e","s">>, <<"n","o","t","e","s","_","a","p","p","e","n","d">>>>,
     <<<<"w","r","i","t","e","_","n","o","t","e">>, <<"n","o","t","e","s","_","a","p","p","e","n","d">>>>,
     <<<<"s","h","o","w","_","n","o","t","e","s">>, <<"n","o","t","e","s","_","s","h","o","w">>>>,
     <<<<"l","i","s","t","_","n","o","t","e","s">>, <<"n","o","t","e","s","_","s","h","o","w">>>>,
     <<<<"c","l","e","a","r","_","n","o","t","e","s">>, <<"n","o","t","e","s","_","c","l","e","a","r">>>>,
     <<<<"l","i","s","t">>, <<"l","i","s","t","_","a","d","d">>>>,
     <<<<"a","d","d","_","l","i","s","t">>, <<"l","i","s","t","_","a","d","d">>>>,
     <<<<"r","e","m","o","v","e","_","l","i","s","t">>, <<"l","i","s","t","_","r","e","m","o","v","e">>>>,
     <<<<"s","h","o","w","_","l","i","s","t">>, <<"l","i","s","t","_","s","h","o","w">>>>,
     <<<<"g","e","t","_","l","i","s","t">>, <<"l","i","s","t","_","s","h","o","w">>>>,
     <<<<"l","i","s","t","s">>, <<"l","i","s","t","_","l","i","s","t","s">>>>}

\* Registry.Get: the tools a lookup may return, {} standing for nil.  The
\* third tier ranges over a Go map, so any containing match may come first.
RegistryGetAliasFirst(tools, aliases, name) ==
    LET lname == ToLower(name)
        viaAlias == {a[2] : a \in {x \in aliases : x[1] = lname /\ x[2] \in tools}}
    IN  IF viaAlias # {} THEN viaAlias
        ELSE IF lname \in tools THEN {lname}
        ELSE {t \in tools : Contains(t, lname) \/ Contains(lname, t)}

RegistryGet(tools, aliases, name) ==
    LET lname == ToLower(name)
        viaAlias == {a[2] : a \in {x \in aliases : x[1] = lname /\ x[2] \in tools}}
    IN  IF lname \in tools THEN {lname}
        ELSE IF viaAlias # {} THEN viaAlias
        ELSE {t \in tools : Contains(t, lname) \/ Contains(lname, t)}

Get(name) == RegistryGet(RegisteredTools, RegisteredAliases, name)

-----------------------------------------------------------------------------
(* cmd/agent/main.go: the state of one turn *)


\* store.SessionState
SessionState(id, dir, useLast) == [ID |-> id, Dir |-> dir, UseLast |-> useLast]

SetSessionIDDropped(s, value) == s

\* SessionStore.SetSessionID, SetDir, SetUseLast on the sender's key
SetSessionID(s, value) == [s EXCEPT !.ID = value]
SetDir(s, dir)         == [s EXCEPT !.Dir = dir]
SetUseLast(s, value)   == [s EXCEPT !.UseLast = value]

\* the arguments of a codexClient.Exec call: session id, directory, whether
\* the prompt starts with the system preamble, and useLast
ExecCall(sid, dir, preamble, useLast) ==
    [sid |-> sid, dir |-> dir, preamble |-> preamble, useLast |-> useLast]

\* the locals of handleMessage: pc is where the goroutine stands, i the
\* index of the continuation loop (-1 before the loop)
IdleTurn ==
    [pc |-> "idle", msg |-> <<>>, text |-> <<>>,
     state |-> SessionState("", <<>>, FALSE), i |-> -1,
     agentResp |-> ZeroResponse, raw |-> InvalidDoc, typing |-> 0,
     call |-> ExecCall("", <<>>, FALSE, FALSE)]

\* what the turn remembers of the parse repair of the reply in hand (has it
\* returned, did the call fail, does its output decode, and to what, until
\* processResponse has seen it) and of that reply's arrival at
\* processResponse (did it arrive, after a parse repair, as the response the
\* repair output decodes to, did its packet fail validation, and how
\* processResponse ended for it: "nopacket", "jobs", "tools",
\* "invalid_twice", "repair_error" or "repair_undecoded", "" until it ends)
NoRepair == [returned |-> FALSE, err |-> FALSE, decodes |-> FALSE,
             resp |-> ZeroResponse]

NoCalls == [primary |-> 0, continue |-> 0, parseRepair |-> 0, semRepair |-> 0]

\* path, routed, answer, errMsgs, backendErr, allFlagged, allValid and the
\* primary and continuation counts of calls tell of the whole turn; the
\* other fields tell of what happened since the last primary or
\* continuation reply arrived (since the message arrived, before any did);
\* declared holds the names of the requests of the packet executePacket was
\* given and results what it appended to its results, in order; rawSent is
\* the raw text parseResponse passed on to the user, reported the session
\* id and the directory the output of the last primary or continuation call
\* names, promptRead that the turn read prompt.txt
NoObs ==
    [path |-> "none", calls |-> NoCalls, answer |-> "",
     sent |-> {}, lastSent |-> "", errMsgs |-> 0,
     routed |-> NoRoute, toolsRun |-> {},
     lastRun |-> ToolRequest(<<>>, {}), summary |-> [ok |-> 0, fail |-> 0],
     declared |-> <<>>, results |-> <<>>, packet |-> Packet("", "", "", "", <<>>, 0),
     rawSent |-> InvalidDoc,
     reported |-> [sid |-> "", dir |-> <<>>], promptRead |-> FALSE,
     replyUndecoded |-> FALSE,
     repair |-> NoRepair,
     gate |-> [seen |-> FALSE, repaired |-> FALSE, fromRepair |-> FALSE,
               invalid |-> FALSE, end |-> ""],
     backendErr |-> FALSE, allFlagged |-> TRUE, allValid |-> TRUE]

World(t, o, s) == [t |-> t, o |-> o, s |-> s]

SendDropsRaw(o, kind) ==
    IF kind = "raw" THEN o
    ELSE [o EXCEPT !.sent = @ \cup {kind}, !.lastSent = kind,
                   !.errMsgs = IF kind \in {"llm_error", "critical", "jobs_error"}
                               THEN @ + 1 ELSE @]

\* adapter.Send(ctx, senderID, ...): the kind of text that went out;
\* errMsgs counts the texts that report a failure of the turn itself
Send(o, kind) ==
    [o EXCEPT !.sent = @ \cup {kind}, !.lastSent = kind,
              !.errMsgs = IF kind \in {"llm_error", "critical", "jobs_error"}
                          THEN @ + 1 ELSE @]

\* codex.Client.Exec as its caller sees it: out is what the backend process
\* did (failed or not, its stdout, the session id and directory its output
\* names, "" and <<>> for none)
ExecOutcome(err, doc, sid, dir) == [err |-> err, doc |-> doc, sid |-> sid, dir |-> dir]

ExecResponse(sessionID, cwd, out) ==
    [Text |-> out.doc,
     NewDir |-> IF out.dir = <<>> THEN cwd ELSE out.dir,
     SessionID |-> IF out.sid = "" THEN sessionID ELSE out.sid]

IssueCallWithPreamble(w, kind) ==
    World([w.t EXCEPT !.pc = kind, !.typing = @ + 1,
                      !.call = ExecCall(w.t.state.ID, w.t.state.Dir, TRUE,
                                        IF kind = "primary" THEN w.t.state.UseLast
                                        ELSE kind = "continue")],
          [w.o EXCEPT !.calls[kind] = @ + 1], w.s)

\* startTyping, then codexClient.Exec is under way
IssueCall(w, kind) ==
    World([w.t EXCEPT !.pc = kind, !.typing = @ + 1,
                      !.call = ExecCall(w.t.state.ID, w.t.state.Dir,
                                        kind = "primary" /\ ~w.t.state.UseLast,
                                        IF kind = "primary" THEN w.t.state.UseLast
                                        ELSE kind = "continue")],
          [w.o EXCEPT !.calls[kind] = @ + 1], w.s)

EndTurnRetriesOnce(w) ==
    IF w.o.backendErr /\ w.o.calls.primary < 2
    THEN IssueCall(w, "primary")
    ELSE World([w.t EXCEPT !.pc = "done"], w.o, w.s)

\* handleMessage returns
EndTurn(w) == World([w.t EXCEPT !.pc = "done"], w.o, w.s)

LoopCondOffByOne(i) == i <= MaxContinuations

\* main.go line 239: for i := 0; i < 5; i++
LoopCond(i) == i < MaxContinuations

AfterProcessIgnoresRet(w, ret) ==
    IF LoopCond(w.t.i + 1)
    THEN IssueCall(World([w.t EXCEPT !.i = @ + 1, !.agentResp = ZeroResponse,
                                     !.raw = InvalidDoc],
                         w.o, w.s), "continue")
    ELSE EndTurn(w)

\* main.go lines 235-239 and 262-265: what follows a processResponse that
\* returned ret; the response and the raw text are overwritten by the next
\* parseResponse before they are read again
AfterProcess(w, ret) ==
    IF ~ret THEN EndTurn(w)
    ELSE IF LoopCond(w.t.i + 1)
    THEN IssueCall(World([w.t EXCEPT !.i = @ + 1, !.agentResp = ZeroResponse,
                                     !.raw = InvalidDoc],
                         w.o, w.s), "continue")
    ELSE EndTurn(w)

\* main.go lines 384-394: the chat target is added to the arguments of a
\* request named schedule or schedule_job that gives none
InjectTarget(req, targetID) ==
    IF /\ req.Name \in {Lit.schedule, Lit.schedule_job}
       /\ \A kv \in req.Args : kv[1] # "target"
    THEN ToolRequest(req.Name, req.Args \cup {<<"target", targetID>>})
    ELSE req

\* the chat the message came from (msg.SenderID)
SenderID == <<"4", "2">>

ToolOutcomesNotFoundOk(req) ==
    IF Get(req.Name) = {}
    THEN {[tool |-> <<>>, err |-> Nil]}
    ELSE {[tool |-> t, err |-> e] : t \in Get(req.Name), e \in {Nil, "tool error"}}

\* registry.Get(req.Name) and tool.Run(ctx, req.Args) for one request: the
\* tool that ran (<<>> when none was found) and the error recorded for it
ToolOutcomes(req) ==
    IF Get(req.Name) = {}
    THEN {[tool |-> <<>>, err |-> "tool not found"]}
    ELSE {[tool |-> t, err |-> e] : t \in Get(req.Name), e \in {Nil, "tool error"}}

\* one outcome for each request of a packet, in order
RECURSIVE OutcomeSeqs(_)
OutcomeSeqs(reqs) ==
    IF Len(reqs) = 0 THEN {<<>>}
    ELSE {<<h>> \o rest : h \in ToolOutcomes(Head(reqs)),
                          rest \in OutcomeSeqs(Tail(reqs))}

ToolResultsReversed(packet, outs) ==
    LET n == Len(packet.Tools)
    IN  [k \in 1..n |-> [name |-> packet.Tools[n + 1 - k].Name,
                         given |-> {}, args |-> {}, announced |-> FALSE,
                         tool |-> outs[n + 1 - k].tool, err |-> outs[n + 1 - k].err]]

\* main.go lines 374-405: what the loop over packet.Tools does with request
\* k, outs[k] being what its lookup and its run gave: the name and the error
\* it appends to results, the arguments the request came with and those its
\* tool was run with (those it came with where there was no run), and whether
\* it sent a "[System] Tool error" message
ToolResults(packet, outs) ==
    [k \in 1..Len(packet.Tools) |->
        [name |-> packet.Tools[k].Name,
         given |-> packet.Tools[k].Args,
         args |-> IF outs[k].tool = <<>> THEN packet.Tools[k].Args
                  ELSE InjectTarget(packet.Tools[k], SenderID).Args,
         announced |-> outs[k].tool # <<>> /\ outs[k].err # Nil,
         tool |-> outs[k].tool, err |-> outs[k].err]]

\* executePacket: the status line, every request in turn, a "[System] Tool
\* error" line for each run that failed, and the summary when any request
\* was declared
ExecutePacket(o, packet, outs) ==
    LET n      == Len(packet.Tools)
        found  == {k \in 1..n : outs[k].tool # <<>>}
        failed == {k \in 1..n : outs[k].err # Nil}
        o1     == IF n > 0 THEN Send(o, "status_start") ELSE o
        o2     == IF found \cap failed # {} THEN Send(o1, "tool_error") ELSE o1
        results == ToolResults(packet, outs)
        o3     == [o2 EXCEPT
                     !.declared = [k \in 1..n |-> packet.Tools[k].Name],
                     !.results = results,
                     !.packet = packet,
                     !.toolsRun = @ \cup {outs[k].tool : k \in found},
                     !.lastRun = IF found = {} THEN @
                                 ELSE InjectTarget(
                                        packet.Tools[CHOOSE k \in found :
                                                       \A j \in found : j <= k],
                                        SenderID)]
    IN  IF n = 0 THEN o3
        ELSE Send([o3 EXCEPT !.summary =
                      [ok   |-> Cardinality({k \in 1..n : results[k].err = Nil}),
                       fail |-> Cardinality({k \in 1..n : results[k].err # Nil})]],
                  "status_summary")

\* main.go lines 330-341: the packet has passed validation
FinishProcess(w, outs) ==
    LET resp == w.t.agentResp
    IN  IF resp.IR.p.Action = ActionListReminders
        THEN AfterProcess(World(w.t, Send([w.o EXCEPT !.gate.end = "jobs"], "jobs"),
                                w.s),
                          resp.NeedProcess)
        ELSE AfterProcess(World(w.t,
                                ExecutePacket([w.o EXCEPT !.gate.end = "tools"],
                                              resp.IR.p, outs),
                                w.s),
                          resp.NeedProcess)

ProcessResponseUnvalidated(w, repaired, outs) ==
    LET resp == w.t.agentResp
        o0   == [w.o EXCEPT
                   !.gate = [seen |-> TRUE, repaired |-> repaired,
                             fromRepair |-> repaired /\ resp = w.o.repair.resp,
                             invalid |-> ~resp.IR.isNil /\ Validate(resp.IR.p) # Nil,
                             end |-> IF resp.IR.isNil THEN "nopacket" ELSE ""],
                   !.repair.resp = ZeroResponse]
        o1   == IF resp.Reply # "" THEN Send(o0, "reply") ELSE o0
        w1   == World(w.t, o1, w.s)
    IN  IF resp.IR.isNil THEN AfterProcess(w1, resp.NeedProcess)
        ELSE IF Validate(resp.IR.p) # Nil
        THEN FinishProcess(w1, CHOOSE o \in OutcomeSeqs(resp.IR.p.Tools) : TRUE)
        ELSE FinishProcess(w1, outs)

\* processResponse up to its first backend call: w.t.agentResp is the
\* decoded response, repaired tells whether a parse repair produced it
ProcessResponse(w, repaired, outs) ==
    LET resp == w.t.agentResp
        o0   == [w.o EXCEPT
                   !.gate = [seen |-> TRUE, repaired |-> repaired,
                             fromRepair |-> repaired /\ resp = w.o.repair.resp,
                             invalid |-> ~resp.IR.isNil /\ Validate(resp.IR.p) # Nil,
                             end |-> IF resp.IR.isNil THEN "nopacket" ELSE ""],
                   !.repair.resp = ZeroResponse]
        o1   == IF resp.Reply # "" THEN Send(o0, "reply") ELSE o0
        w1   == World(w.t, o1, w.s)
    IN  IF resp.IR.isNil THEN AfterProcess(w1, resp.NeedProcess)
        ELSE IF Validate(resp.IR.p) # Nil THEN IssueCall(w1, "semRepair")
        ELSE FinishProcess(w1, outs)

\* the requests executePacket will run if doc is decoded onto r and the
\* result passes the gate
ToolsToRun(r, doc) ==
    LET d == UnmarshalJSON(r, doc)
    IN  IF /\ d.err = Nil /\ ~d.r.IR.isNil /\ Validate(d.r.IR.p) = Nil
           /\ d.r.IR.p.Action # ActionListReminders
        THEN d.r.IR.p.Tools
        ELSE <<>>

ParseResponseNoRepair(w, doc, outs) ==
    LET d == UnmarshalJSON(ZeroResponse, doc)
    IN  IF d.err = Nil
        THEN ProcessResponse(World([w.t EXCEPT !.agentResp = d.r, !.raw = doc],
                                   w.o, w.s), FALSE, outs)
        ELSE EndTurn(World([w.t EXCEPT !.raw = doc],
                           [w.o EXCEPT !.replyUndecoded = TRUE], w.s))

\* parseResponse up to its backend call, then processResponse: doc is the
\* text of a primary or continuation reply
ParseResponse(w, doc, outs) ==
    LET d == UnmarshalJSON(ZeroResponse, doc)
    IN  IF d.err = Nil
        THEN ProcessResponse(World([w.t EXCEPT !.agentResp = d.r, !.raw = doc],
                                   w.o, w.s), FALSE, outs)
        ELSE IssueCall(World([w.t EXCEPT !.agentResp = ZeroResponse, !.raw = doc],
                             [w.o EXCEPT !.replyUndecoded = TRUE], w.s),
                       "parseRepair")

\* the session id and the directory most recently named by the output of a
\* backend call of the turn
Reported(o, out) ==
    [sid |-> IF out.sid # "" /\ ~out.err THEN out.sid ELSE o.reported.sid,
     dir |-> IF out.dir # <<>> /\ ~out.err THEN out.dir ELSE o.reported.dir]

\* a primary or continuation reply has arrived: what the turn remembers of
\* the reply before, and of the replies so far
NoteReply(o, out) ==
    LET d == UnmarshalJSON(ZeroResponse, out.doc)
    IN  [o EXCEPT
           !.replyUndecoded = FALSE,
           !.calls.parseRepair = 0, !.calls.semRepair = 0,
           !.sent = {}, !.lastSent = "", !.toolsRun = {},
           !.lastRun = ToolRequest(<<>>, {}), !.summary = [ok |-> 0, fail |-> 0],
           !.declared = <<>>, !.results = <<>>, !.packet = NoObs.packet,
           !.rawSent = InvalidDoc,
           !.reported = Reported(o, out),
           !.repair = NoRepair, !.gate = NoObs.gate,
           !.backendErr = @ \/ out.err,
           !.allFlagged = @ /\ ~out.err /\ d.err = Nil /\ d.r.NeedProcess,
           !.allValid = @ /\ (out.err \/ d.err # Nil \/ d.r.IR.isNil
                                \/ Validate(d.r.IR.p) = Nil)]

\* parseDirCommand: <<dir, rest, ok>>
ParseDirCommand(text0) ==
    LET text == TrimSpace(text0)
        isCd == HasPrefix(text, Lit.slash_cd)
                \/ (HasPrefix(text, Lit.cd) /\ ~Contains(text, <<"\n">>))
        raw  == IF HasPrefix(text, Lit.slash_cd)
                THEN TrimSpace(SubSeq(text, 5, Len(text)))
                ELSE TrimSpace(SubSeq(text, 4, Len(text)))
        parts == SplitN2(raw, Lit.andand)
    IN  IF ~isCd THEN <<<<>>, <<>>, FALSE>>
        ELSE IF raw = <<>> THEN <<<<>>, <<>>, TRUE>>
        ELSE IF Len(parts) = 2
        THEN <<TrimSpace(parts[1]), TrimSpace(parts[2]), TRUE>>
        ELSE <<raw, <<>>, TRUE>>

SessionResetKeepsDir(w) ==
    World(w.t, Send(w.o, "session_reset"), SetUseLast(w.s, FALSE))

\* sessionReset
SessionReset(w) ==
    World(w.t, Send(w.o, "session_reset"), SetDir(SetUseLast(w.s, FALSE), <<>>))

\* handleShell: pwd is what "cd ... && pwd" printed, <<>> when nothing
HandleShell(w, text, pwd) ==
    LET cmd == TrimSpace(SubSeq(text, 2, Len(text)))
    IN  IF cmd = <<>> THEN w
        ELSE World(w.t, Send(w.o, "shell_output"),
                   IF HasPrefix(cmd, Lit.cd) /\ pwd # <<>> /\ pwd # w.t.state.Dir
                   THEN SetDir(w.s, pwd) ELSE w.s)

\* main.go lines 184-225: the router check on text and, when it fails,
\* the primary backend call; prompt tells whether prompt.txt can be read,
\* without which there is no preamble to put before the text
RouteOrDispatch(w, text, prompt, outs) ==
    LET r == Route(text)
        t == [w.t EXCEPT !.text = text]
        primary == IssueCall(World(t, [w.o EXCEPT !.path = "backend"], w.s), "primary")
    IN  IF r.ok
        THEN EndTurn(World(t,
               ExecutePacket(
                 Send([w.o EXCEPT !.path = "router", !.routed = r,
                                  !.answer = GenerateReply(r.packet.p)],
                      "router_reply"),
                 r.packet.p, outs),
               w.s))
        ELSE World([primary.t EXCEPT !.call.preamble = @ /\ prompt],
                   [primary.o EXCEPT !.promptRead = ~w.t.state.UseLast /\ prompt],
                   primary.s)

\* the requests executePacket runs when the router takes the message
RoutedTools(m) ==
    LET text == TrimSpace(m)
        cd   == ParseDirCommand(text)
        rt   == IF cd[3] THEN cd[2] ELSE text
    IN  IF /\ text \notin {<<>>, Lit.new, Lit.tools, Lit.slashhelp}
           /\ ~HasPrefix(text, Lit.bang)
           /\ Route(rt).ok
        THEN Route(rt).packet.p.Tools
        ELSE <<>>

\* handleMessage from its start to its return or its first backend call
HandleEntry(w0, m, pwd, prompt, outs) ==
    LET text == TrimSpace(m)
        w    == World([w0.t EXCEPT !.msg = m, !.text = text], w0.o, w0.s)
        quick(path, kind, answer) ==
            EndTurn(World(w.t, Send([w.o EXCEPT !.path = path, !.answer = answer],
                                    kind), w.s))
        ws   == World([w.t EXCEPT !.state = w.s], w.o, w.s)
        cd   == ParseDirCommand(text)
    IN  IF text = <<>> THEN EndTurn(World(w.t, [w.o EXCEPT !.path = "empty"], w.s))
        ELSE IF text = Lit.new
        THEN EndTurn(SessionReset(World(w.t, [w.o EXCEPT !.path = "new"], w.s)))
        ELSE IF text = Lit.tools THEN quick("tools", "tool_list", "tools: ...")
        ELSE IF text = Lit.slashhelp
        THEN quick("help", "commands",
                   "Commands:\n/new - Reset session\n/cd <dir> - Change dir\n!cmd - Direct shell exec\n/tools - List tools")
        ELSE IF HasPrefix(text, Lit.bang)
        THEN EndTurn(HandleShell(World(ws.t, [ws.o EXCEPT !.path = "shell"], ws.s),
                                 text, pwd))
        ELSE IF cd[3] /\ cd[2] = <<>>
        THEN EndTurn(World(ws.t, Send([ws.o EXCEPT !.path = "cd"], "dir_changed"),
                           SetDir(ws.s, cd[1])))
        ELSE IF cd[3]
        THEN RouteOrDispatch(World(ws.t, ws.o, SetDir(ws.s, cd[1])), cd[2], prompt,
                             outs)
        ELSE RouteOrDispatch(ws, text, prompt, outs)

-----------------------------------------------------------------------------
(* cmd/agent/main.go: the steps of a turn *)

\* the message texts the adapter delivers
PipeTexts ==
    {<<" ">>,
     Lit.new, Lit.tools, Lit.slashhelp, Lit.help, Lit.ping,
     <<"!"," ">>, <<"!","l","s">>, <<"!","c","d"," ","/","d">>,
     <<"/","c","d"," ","/","d">>,
     <<"c","d"," ","/","d"," ","&","&"," ","p","i","n","g">>,
     <<"c","d"," ","/","d"," ","&","&"," ","x">>,
     <<"n","o","t","e",":"," ","a">>,
     <<"l","i","s","t"," ","a"," ","+","="," ","b">>,
     <<"x">>}

\* what a backend process may do: fail, or print a text (with or without
\* a session id and a directory); the texts are undecodable ones, objects
\* without "ir", and replies whose "ir" is absent, null, sparse, invalid or
\* valid with zero, one or two tool requests
PipeOutcomes ==
    LET toolLists ==
            {<<>>,
             <<ToolRequest(Lit.notes_append, {<<"content", <<"a">> >>})>>,
             <<ToolRequest(Lit.nosuch, {})>>,
             <<ToolRequest(Lit.schedule, {<<"message", <<"a">> >>}),
               ToolRequest(Lit.notes_append, {<<"content", <<"a">> >>})>>,
             <<ToolRequest(<<"r","e","m","i","n","d">>, {<<"message", <<"a">> >>}),
               ToolRequest(Lit.schedule,
                           {<<"message", <<"a">> >>, <<"target", <<"9">> >>})>>}
        irMembers ==
            {JNoIR, JNullIR,
             JPacket({"Action"}, Packet(ActionActNow, "", "", "", <<>>, 0)),
             JPacket(PacketFields, Packet(ActionListReminders, "list", RiskNone, "", <<>>, 7)),
             JPacket(PacketFields,
                     Packet("invalid", "greet", RiskLow, "",
                            <<ToolRequest(Lit.notes_append, {<<"content", <<"a">> >>})>>,
                            7))}
            \cup {JPacket(PacketFields, Packet(ActionActNow, "greet", RiskLow, "", t, 7)) :
                    t \in toolLists}
        docs ==
            {InvalidDoc, ScalarDoc,
             ObjectDoc(JNone(""), JNoIR, JNone(FALSE), JNone(FALSE)),
             ObjectDoc(JNone(""), JNoIR, JVal(FALSE), JNone(FALSE)),
             ObjectDoc(JNone(""), JNoIR, JNone(FALSE), JVal(TRUE))}
            \cup {ObjectDoc(JVal("hi"), m, np, JNone(FALSE)) :
                    m \in irMembers, np \in {JNone(FALSE), JVal(TRUE)}}
    IN  {ExecOutcome(TRUE, InvalidDoc, "", <<>>)}
        \cup {ExecOutcome(FALSE, d, "", <<>>) : d \in docs}
        \cup {ExecOutcome(FALSE, d, "s1", Lit.dir) :
                d \in {InvalidDoc, ObjectDoc(JVal("hi"), JNoIR, JVal(TRUE), JNone(FALSE))}}

\* the outcomes of the tools that run once out has been handled with
\* receiver r
OutcomesFor(r, out) ==
    IF out.err THEN {<<>>} ELSE OutcomeSeqs(ToolsToRun(r, out.doc))

Become(w) == turn' = w.t /\ obs' = w.o /\ sessions' = w.s

\* the adapter delivers message m and handleMessage runs to its return or
\* to its first backend call
HandleMessage(m, pwd, prompt, outs) ==
    /\ turn.pc = "idle"
    /\ Become(HandleEntry(World(turn, obs, sessions), m, pwd, prompt, outs))
    /\ UNCHANGED <<pin, pout, sched, run, conc>>

\* main.go lines 209-234: the primary call returns
PrimaryReturns(out, outs) ==
    /\ turn.pc = "primary"
    /\ LET t0   == [turn EXCEPT !.typing = @ - 1]
           o0   == NoteReply(obs, out)
           resp == ExecResponse(turn.state.ID, turn.state.Dir, out)
           newID  == resp.SessionID # "" /\ resp.SessionID # turn.state.ID
           newDir == resp.NewDir # <<>> /\ resp.NewDir # turn.state.Dir
           s1   == IF newID THEN SetSessionID(sessions, resp.SessionID) ELSE sessions
           s2   == IF newDir THEN SetDir(s1, resp.NewDir) ELSE s1
           t1   == IF newID THEN [t0 EXCEPT !.state.ID = resp.SessionID] ELSE t0
       IN  IF out.err
           THEN Become(EndTurn(World(t0, Send(o0, "llm_error"), sessions)))
           ELSE Become(ParseResponse(World(t1, o0, SetUseLast(s2, TRUE)),
                                     resp.Text, outs))
    /\ UNCHANGED <<pin, pout, sched, run, conc>>

\* main.go lines 241-264: a continuation call returns
ContinueReturns(out, outs) ==
    /\ turn.pc = "continue"
    /\ LET t0   == [turn EXCEPT !.typing = @ - 1]
           o0   == NoteReply(obs, out)
           resp == ExecResponse(turn.state.ID, turn.state.Dir, out)
           newID  == resp.SessionID # "" /\ resp.SessionID # turn.state.ID
           newDir == resp.NewDir # <<>> /\ resp.NewDir # turn.state.Dir
           s1   == IF newID THEN SetSessionID(sessions, resp.SessionID) ELSE sessions
           s2   == IF newDir THEN SetDir(s1, resp.NewDir) ELSE s1
           t1   == IF newID THEN [t0 EXCEPT !.state.ID = resp.SessionID] ELSE t0
           t2   == IF newDir THEN [t1 EXCEPT !.state.Dir = resp.NewDir] ELSE t1
       IN  IF out.err
           THEN Become(EndTurn(World(t0, Send(o0, "llm_error"), sessions)))
           ELSE Become(ParseResponse(World(t2, o0, s2), resp.Text, outs))
    /\ UNCHANGED <<pin, pout, sched, run, conc>>

\* main.go lines 280-294: the parse-repair call returns
ParseRepairReturns(out, outs) ==
    /\ turn.pc = "parseRepair"
    /\ LET t0 == [turn EXCEPT !.typing = @ - 1]
           want == UnmarshalJSON(ZeroResponse, out.doc)
           o0 == [obs EXCEPT !.repair = [returned |-> TRUE, err |-> out.err,
                                         decodes |-> ~out.err /\ want.err = Nil,
                                         resp |-> IF ~out.err /\ want.err = Nil
                                                  THEN want.r ELSE ZeroResponse],
                             !.reported = Reported(obs, out),
                             !.backendErr = @ \/ out.err]
           d  == UnmarshalJSON(turn.agentResp, out.doc)
       IN  IF out.err THEN Become(EndTurn(World(t0, o0, sessions)))
           ELSE IF d.err # Nil
           THEN Become(EndTurn(World(t0, Send([o0 EXCEPT !.rawSent = t0.raw], "raw"),
                                     sessions)))
           ELSE Become(ProcessResponse(
                         World([t0 EXCEPT !.agentResp = d.r], o0, sessions),
                         TRUE, outs))
    /\ UNCHANGED <<pin, pout, sched, run, conc>>

\* main.go lines 314-341: the semantic-repair call returns; its output is
\* decoded onto the response that failed validation
SemRepairReturns(out, outs) ==
    /\ turn.pc = "semRepair"
    /\ LET t0 == [turn EXCEPT !.typing = @ - 1]
           o0 == [obs EXCEPT !.backendErr = @ \/ out.err,
                             !.reported = Reported(obs, out)]
           d  == UnmarshalJSON(turn.agentResp, out.doc)
           w1 == World([t0 EXCEPT !.agentResp = d.r], o0, sessions)
       IN  IF out.err \/ d.err # Nil
           THEN Become(AfterProcess(
                         World(t0, [o0 EXCEPT !.gate.end =
                                        IF out.err THEN "repair_error"
                                        ELSE "repair_undecoded"],
                               sessions),
                         FALSE))
           ELSE IF d.r.IR.isNil
           THEN Become(World([w1.t EXCEPT !.pc = "crashed"], w1.o, w1.s))
           ELSE IF Validate(d.r.IR.p) # Nil
           THEN Become(AfterProcess(
                         World(w1.t, Send([w1.o EXCEPT !.gate.end = "invalid_twice"],
                                          "critical"),
                               w1.s),
                         FALSE))
           ELSE Become(FinishProcess(w1, outs))
    /\ UNCHANGED <<pin, pout, sched, run, conc>>

\* the goroutine of the turn is gone; the adapter waits for the next message
NextMessage ==
    /\ turn.pc = "done"
    /\ turn' = IdleTurn /\ obs' = NoObs
    /\ UNCHANGED <<sessions, pin, pout, sched, run, conc>>

-----------------------------------------------------------------------------
(* internal/scheduler: runTask *)

\* config.TaskConfig as runTask reads it
TaskConfig(id, prompt, tools, adapter, targets) ==
    [ID |-> id, Prompt |-> prompt, Tools |-> tools, Adapter |-> adapter,
     Targets |-> targets]

\* adapters.Registry after main() registered the telegram adapter
RegisteredAdapters == {"telegram"}

AdapterGetAlways(id) == TRUE

\* adapters.Registry.Get: FALSE stands for nil
AdapterGet(id) == id \in RegisteredAdapters

HasPromptAlways(task) == TRUE

\* scheduler.go line 120: hasPrompt := task.Prompt != ""
HasPrompt(task) == task.Prompt # ""

\* one thing a firing did: a tool that ran, a text sent to a target, or a
\* backend call.  For a send, label is the bracketed name before the text
\* ("" when there is none) and body tells what the text is; for a backend
\* call, context is what follows the prompt
Event(ev, name, target, body, context) ==
    [ev |-> ev, name |-> name, target |-> target, body |-> body,
     context |-> context]

\* the locals of runTask: k is the index of the next request, toolOutputs
\* holds one entry (requested name, and whether an output, an error or the
\* not-found note was written) per request handled
IdleRun ==
    [pc |-> "idle", task |-> TaskConfig("", "", <<>>, "", <<>>), k |-> 1, toolOutputs |-> <<>>,
     trace |-> <<>>, calls |-> 0, err |-> Nil]

\* the sends of scheduler.go lines 141-147 for one tool's output
RECURSIVE SendEach(_, _, _)
SendEach(targets, name, body) ==
    IF Len(targets) = 0 THEN <<>>
    ELSE <<Event("send", name, Head(targets), body, <<>>)>>
         \o SendEach(Tail(targets), name, body)

\* cron fires the job: runTask starts
FireTask(task) ==
    /\ run.pc = "idle"
    /\ run' = [IdleRun EXCEPT !.pc = "tools", !.task = task]
    /\ UNCHANGED <<pin, pout, sessions, turn, obs, sched, conc>>

\* scheduler.go lines 124-148: one pass of the loop over task.Tools
RunTool(outcome) ==
    /\ run.pc = "tools" /\ run.k <= Len(run.task.Tools)
    /\ LET req  == run.task.Tools[run.k]
           kind == IF outcome.err = Nil THEN "output" ELSE "error"
       IN  /\ outcome \in ToolOutcomes(req)
           /\ IF outcome.tool = <<>>
              THEN run' = [run EXCEPT
                             !.k = @ + 1,
                             !.toolOutputs = Append(@, [name |-> req.Name, kind |-> "notfound"])]
              ELSE run' = [run EXCEPT
                             !.k = @ + 1,
                             !.toolOutputs = Append(@, [name |-> req.Name, kind |-> kind]),
                             !.trace = @ \o <<Event("tool", req.Name, "", kind, <<>>)>>
                                         \o IF ~HasPrompt(run.task)
                                               /\ AdapterGet(run.task.Adapter)
                                            THEN SendEach(run.task.Targets, req.Name, kind)
                                            ELSE <<>>]
    /\ UNCHANGED <<pin, pout, sessions, turn, obs, sched, conc>>

\* scheduler.go lines 152-158: the prompt is built and the backend called
CallBackend ==
    /\ run.pc = "tools" /\ run.k > Len(run.task.Tools)
    /\ HasPrompt(run.task)
    /\ run' = [run EXCEPT !.pc = "exec", !.calls = @ + 1,
                          !.trace = Append(@, Event("exec", "", "", "prompt",
                                                    run.toolOutputs))]
    /\ UNCHANGED <<pin, pout, sessions, turn, obs, sched, conc>>

\* scheduler.go lines 152 and 174: a job without prompt returns
ReturnWithoutPrompt ==
    /\ run.pc = "tools" /\ run.k > Len(run.task.Tools)
    /\ ~HasPrompt(run.task)
    /\ run' = [run EXCEPT !.pc = "done"]
    /\ UNCHANGED <<pin, pout, sessions, turn, obs, sched, conc>>

\* scheduler.go lines 158-174: the backend call returns
BackendReturns(failed) ==
    /\ run.pc = "exec"
    /\ run' = IF failed THEN [run EXCEPT !.pc = "done", !.err = "exec error"]
              ELSE IF ~AdapterGet(run.task.Adapter) THEN [run EXCEPT !.pc = "done"]
              ELSE [run EXCEPT !.pc = "done",
                               !.trace = @ \o SendEach(run.task.Targets, "", "reply")]
    /\ UNCHANGED <<pin, pout, sessions, turn, obs, sched, conc>>

\* the cron engine is ready for the next firing
NextFiring ==
    /\ run.pc = "done"
    /\ run' = IdleRun
    /\ UNCHANGED <<pin, pout, sessions, turn, obs, sched, conc>>

\* the tool requests of the jobs
JobTools ==
    {ToolRequest(Lit.list_show, {<<"list", <<"a">> >>}),
     ToolRequest(Lit.nosuch, {})}

RECURSIVE SeqsUpTo(_, _)
SeqsUpTo(S, n) ==
    IF n = 0 THEN {<<>>}
    ELSE SeqsUpTo(S, n - 1)
         \cup {Append(q, x) : q \in {r \in SeqsUpTo(S, n - 1) : Len(r) = n - 1},
                              x \in S}

Tasks ==
    {TaskConfig("j1", p, t, a, g) :
        p \in {"", "summarise"}, t \in SeqsUpTo(JobTools, MaxTools),
        a \in {"telegram", "slack"},
        g \in {SubSeq(<<"42", "7", "8", "9">>, 1, n) : n \in 0..MaxTargets}}

-----------------------------------------------------------------------------
(* internal/scheduler: the schedule tool, one-shots and listJobs *)

\* what time.ParseDuration, time.Parse(time.RFC3339, ...) and the cron
\* parser make of the spec strings the tool is given: a duration, an
\* instant that is past or still to come, a cron spec, or none of them
SpecKind(spec) ==
    IF spec = "30m" THEN "duration"
    ELSE IF spec = "2020-01-01T00:00:00Z" THEN "past"
    ELSE IF spec = "2030-01-01T00:00:00Z" THEN "future"
    ELSE IF spec = "0 9 * * *" THEN "cron"
    ELSE "invalid"

\* the %s of a delay in a one-shot's description
DelayText(spec) ==
    IF SpecKind(spec) = "duration" THEN "30m0s"
    ELSE IF SpecKind(spec) = "past" THEN "0s" ELSE "until"

\* a timer set by time.AfterFunc: h tells the timers apart, id and desc are
\* what AddOneShot computed, adapter, target and msg what the closure holds;
\* st is "pending", "ran" (task() returned) or "gone" (the delete is done)
\* and res what the task did
Timer(h, id, desc, adapter, target, msg) ==
    [h |-> h, id |-> id, desc |-> desc, adapter |-> adapter, target |-> target,
     msg |-> msg, st |-> "pending", res |-> "none"]

\* the value a tool call or ListJobs returned; kind is what the schedule
\* tool took the spec of a complete request for
Ret(op, err, output, lines) ==
    [op |-> op, err |-> err, output |-> output, lines |-> lines, kind |-> ""]

\* the Scheduler after New() found an empty store: store holds the rows of
\* the schedulers table in the order a scan gives them, entries counts the
\* ids the cron engine has handed out and registered holds the entries
\* RegisterTasks made (loaded: New could list the store); reqs and jobReqs
\* count the calls of the two tools
IdleSched ==
    [now |-> 0, reqs |-> 0, jobReqs |-> 0, store |-> <<>>, entries |-> 0,
     registered |-> <<>>, loaded |-> TRUE, memCron |-> {},
     memOneShot |-> {}, timers |-> <<>>, ret |-> Ret("none", Nil, "", {})]

\* m[id] = desc and delete(m, id) on a map kept as a set of entries
MapPut(m, id, desc) == {e \in m : e.id # id} \cup {[id |-> id, desc |-> desc]}
MapDelete(m, id)    == {e \in m : e.id # id}

\* AddOneShot: the id is the clock reading, the entry is stored under it and
\* the timer set
AddOneShot(sc, delay, desc, adapter, target, msg) ==
    [sc EXCEPT
       !.memOneShot = MapPut(@, sc.now, [delay |-> delay, text |-> desc]),
       !.timers = Append(@, Timer(Len(sc.timers) + 1, sc.now,
                                  [delay |-> delay, text |-> desc],
                                  adapter, target, msg))]

\* AddTask: cron.AddFunc and, when the spec is accepted, the memCron entry
AddTask(sc, spec, desc) ==
    IF SpecKind(spec) = "cron"
    THEN [sc EXCEPT !.entries = @ + 1,
                    !.memCron = MapPut(@, sc.entries + 1,
                                       [delay |-> spec, text |-> desc])]
    ELSE sc

\* scheduler.Tool.Run
ToolRun(in) ==
    /\ sched.reqs < MaxOneShots
    /\ LET adapter == IF in.Adapter = "" THEN "telegram" ELSE in.Adapter
           spec    == IF in.Spec \in {"", "once"} /\ in.When # "" THEN in.When
                      ELSE in.Spec
           sc      == [sched EXCEPT !.reqs = @ + 1]
           fail(e) == [sc EXCEPT !.ret = Ret("schedule", e, "", {})]
           ok(x, o) == [x EXCEPT !.ret = Ret("schedule", Nil, o, {})]
           is(x) == [x EXCEPT !.ret.kind = SpecKind(spec)]
       IN  sched' =
             IF in.Message = "" THEN fail("message is required")
             ELSE IF in.Target = "" THEN fail("target is required")
             ELSE IF SpecKind(spec) = "duration"
             THEN is(ok(AddOneShot(sc, DelayText(spec), in.Message, adapter,
                                   in.Target, in.Message),
                        "Scheduled one-shot task in"))
             ELSE IF SpecKind(spec) \in {"past", "future"}
             THEN is(ok(AddOneShot(sc, DelayText(spec), in.Message, adapter,
                                   in.Target, in.Message),
                        IF SpecKind(spec) = "past"
                        THEN "Scheduled one-shot task at (time was in past, executing now)"
                        ELSE "Scheduled one-shot task at"))
             ELSE IF SpecKind(spec) = "cron"
             THEN is(ok(AddTask(sc, spec, in.Message), "Scheduled recurring task"))
             ELSE is(fail("invalid schedule spec"))
    /\ UNCHANGED <<pin, pout, sessions, turn, obs, run, conc>>

\* Tool.Run of the scheduler package of part_001 and part_002, whose
\* AddOneShot sets the timer and keeps no index, whose AddTask keeps no
\* label, and whose Input has no "when"
ToolRunFileStore(in) ==
    /\ sched.reqs < MaxOneShots
    /\ LET adapter == IF in.Adapter = "" THEN "telegram" ELSE in.Adapter
           sc      == [sched EXCEPT !.reqs = @ + 1]
           fail(e) == [sc EXCEPT !.ret = Ret("schedule", e, "", {})]
           ok(x, o) == [x EXCEPT !.ret = Ret("schedule", Nil, o, {})]
           is(x)   == [x EXCEPT !.ret.kind = SpecKind(in.Spec)]
           timer   == Timer(Len(sc.timers) + 1, sc.now,
                            [delay |-> DelayText(in.Spec), text |-> ""],
                            adapter, in.Target, in.Message)
       IN  sched' =
             IF in.Message = "" THEN fail("message is required")
             ELSE IF in.Target = "" THEN fail("target is required")
             ELSE IF SpecKind(in.Spec) = "duration"
             THEN is(ok([sc EXCEPT !.timers = Append(@, timer)],
                        "Scheduled one-shot task in"))
             ELSE IF SpecKind(in.Spec) = "past"
             THEN is(fail("past time"))
             ELSE IF SpecKind(in.Spec) = "future"
             THEN is(ok([sc EXCEPT !.timers = Append(@, timer)],
                        "Scheduled one-shot task at"))
             ELSE IF SpecKind(in.Spec) = "cron"
             THEN is(ok([sc EXCEPT !.entries = @ + 1], "Scheduled recurring task"))
             ELSE is(fail("invalid schedule spec"))
    /\ UNCHANGED <<pin, pout, sessions, turn, obs, run, conc>>

\* time passes: the next time.Now() reads a later instant
Tick ==
    /\ sched.now < MaxClock
    /\ sched' = [sched EXCEPT !.now = @ + 1, !.ret = Ret("none", Nil, "", {})]
    /\ UNCHANGED <<pin, pout, sessions, turn, obs, run, conc>>

\* scheduler.go lines 193-194 and tool.go lines 62-75: the timer of h
\* expires and task() runs; sendFails is what adp.Send does
OneShotFires(h, sendFails) ==
    /\ h \in 1..Len(sched.timers)
    /\ sched.timers[h].st = "pending"
    /\ sched' = [sched EXCEPT
                   !.timers[h].st = "ran",
                   !.timers[h].res =
                       IF ~AdapterGet(sched.timers[h].adapter) THEN "no adapter"
                       ELSE IF sendFails THEN "send failed" ELSE "sent",
                   !.ret = Ret("none", Nil, "", {})]
    /\ UNCHANGED <<pin, pout, sessions, turn, obs, run, conc>>

\* scheduler.go lines 195-197: delete(s.memOneShot, id)
OneShotRemoved(h) ==
    /\ h \in 1..Len(sched.timers)
    /\ sched.timers[h].st = "ran"
    /\ sched' = [sched EXCEPT
                   !.timers[h].st = "gone",
                   !.memOneShot = MapDelete(@, sched.timers[h].id),
                   !.ret = Ret("none", Nil, "", {})]
    /\ UNCHANGED <<pin, pout, sessions, turn, obs, run, conc>>

\* the lines ListJobs builds, without their order
JobLines(sc) ==
    {[kind |-> "Persistent", id |-> sc.store[k].ID,
      desc |-> [delay |-> sc.store[k].Cron, text |-> ""]] : k \in 1..Len(sc.store)}
    \cup {[kind |-> "Cron", id |-> e.id, desc |-> e.desc] : e \in sc.memCron}
    \cup {[kind |-> "OneShot", id |-> e.id, desc |-> e.desc] : e \in sc.memOneShot}

\* Scheduler.ListJobs: the persistent lines are left out when the store's List
\* fails, and the error is dropped
ListJobs(listFails) ==
    /\ sched.ret.op # "ListJobs"
    /\ LET out == IF listFails
                  THEN {l \in JobLines(sched) : l.kind # "Persistent"}
                  ELSE JobLines(sched)
       IN  sched' = [sched EXCEPT
                       !.ret = Ret("ListJobs", Nil,
                                   IF out = {} THEN "No known scheduled jobs." ELSE "",
                                   out)]
    /\ UNCHANGED <<pin, pout, sessions, turn, obs, run, conc>>

\* RegisterTasks: cron.AddFunc for each task in turn, returning at the first
\* spec the cron engine rejects
RECURSIVE RegisterTasks(_, _)
RegisterTasks(sc, tasks) ==
    IF tasks = <<>> THEN [sc |-> sc, err |-> Nil]
    ELSE IF SpecKind(Head(tasks).Cron) # "cron"
    THEN [sc |-> sc, err |-> "bad cron spec"]
    ELSE RegisterTasks([sc EXCEPT !.entries = @ + 1,
                                  !.registered = Append(@, Head(tasks))],
                       Tail(tasks))

AddPersistentJobRegistersAnyway(sc, task, addFails) ==
    IF addFails
    THEN [sc |-> RegisterTasks(sc, <<task>>).sc, err |-> "store error"]
    ELSE RegisterTasks(
           [sc EXCEPT !.store = Append(SelectSeq(@, LAMBDA j : j.ID # task.ID), task)],
           <<task>>)

\* AddPersistentJob: store.Add (INSERT OR REPLACE on the id, which moves a
\* replaced row to the end of a scan), then RegisterTasks on the one task
AddPersistentJob(sc, task, addFails) ==
    IF addFails THEN [sc |-> sc, err |-> "store error"]
    ELSE RegisterTasks(
           [sc EXCEPT !.store = Append(SelectSeq(@, LAMBDA j : j.ID # task.ID), task)],
           <<task>>)

\* scheduler.ScheduleJobTool.Run
ScheduleJobRun(in, addFails) ==
    /\ sched.jobReqs < MaxJobs
    /\ LET sc      == [sched EXCEPT !.jobReqs = @ + 1]
           fail(x, e) == [x EXCEPT !.ret = Ret("schedule_job", e, "", {})]
           task    == [ID |-> in.Name, Cron |-> in.Cron, Prompt |-> in.Prompt,
                       Tools |-> in.Tools,
                       Adapter |-> IF in.Adapter = "" THEN "telegram" ELSE in.Adapter,
                       Targets |-> <<in.Target>>]
           added   == AddPersistentJob(sc, task, addFails)
       IN  sched' =
             IF in.Name = "" THEN fail(sc, "name is required")
             ELSE IF in.Cron = "" THEN fail(sc, "cron is required")
             ELSE IF in.Tools = <<>> /\ in.Prompt = "" THEN fail(sc, "missing tools/prompt")
             ELSE IF in.Target = "" THEN fail(sc, "target is required")
             ELSE IF added.err # Nil THEN fail(added.sc, added.err)
             ELSE [added.sc EXCEPT !.ret = Ret("schedule_job", Nil, "Job scheduled", {})]
    /\ UNCHANGED <<pin, pout, sessions, turn, obs, run, conc>>

\* the process starts again and scheduler.New runs: a fresh cron engine and
\* fresh indices, the timers of the old process are gone, and the tasks the
\* store lists are registered (none when the listing fails)
Restart(listFails) ==
    /\ sched' =
         LET fresh == [sched EXCEPT !.entries = 0, !.registered = <<>>,
                                    !.memCron = {}, !.memOneShot = {},
                                    !.timers = <<>>, !.loaded = ~listFails,
                                    !.ret = Ret("none", Nil, "", {})]
         IN  IF listFails THEN fresh
             ELSE RegisterTasks(fresh, fresh.store).sc
    /\ UNCHANGED <<pin, pout, sessions, turn, obs, run, conc>>

-----------------------------------------------------------------------------
(* Goroutines that share a store, an index or a chat *)

Goroutines == 1 .. MaxGoroutines

\* engine.go lines 165-187: an IRModule is its name, its score (a whole
\* number here), the set of inputs its Detect accepts, and whether its Encode
\* and its Decode fail
PassthroughModule ==
    [name |-> "IR-PASS", score |-> 0, detect |-> {<<"x">>, <<"y">>},
     encodeErr |-> FALSE, decodeErr |-> FALSE]

\* the modules that are registered: a module prefixes its name in Encode and
\* "decoded" in Decode, as far as these do not fail
EngineModules ==
    {[PassthroughModule EXCEPT !.name = "", !.score = 1],
     [PassthroughModule EXCEPT !.name = "low"],
     [PassthroughModule EXCEPT !.name = "neg", !.score = -1],
     [PassthroughModule EXCEPT !.name = "low", !.score = 1, !.detect = {<<"x">>}],
     [PassthroughModule EXCEPT !.name = "high", !.score = 1],
     [PassthroughModule EXCEPT !.name = "high", !.score = 2, !.encodeErr = TRUE],
     [PassthroughModule EXCEPT !.name = "top", !.score = 2, !.decodeErr = TRUE]}

ModuleEncode(m, input) ==
    IF m = PassthroughModule THEN [s |-> input, err |-> Nil]
    ELSE IF m.encodeErr THEN [s |-> <<>>, err |-> "encode error"]
    ELSE [s |-> <<m.name>> \o input, err |-> Nil]

ModuleDecode(m, output) ==
    IF m = PassthroughModule THEN [s |-> output, err |-> Nil]
    ELSE IF m.decodeErr THEN [s |-> <<>>, err |-> "decode error"]
    ELSE [s |-> <<"decoded">> \o output, err |-> Nil]

\* Engine.selectModule: its loop from position k on, best being the position
\* of bestModule (0 for nil)
RECURSIVE SelectModule(_, _, _, _)
SelectModule(modules, input, k, best) ==
    IF k > Len(modules) THEN best
    ELSE IF input \notin modules[k].detect THEN SelectModule(modules, input, k + 1, best)
    ELSE IF best = 0 \/ modules[k].score > modules[best].score
    THEN SelectModule(modules, input, k + 1, k)
    ELSE SelectModule(modules, input, k + 1, best)

\* eng: an iron.Engine: its modules, whether it has a cache, the cache's
\* entries and what its last call returned: the call, its input, the
\* iron.Result and the error.
\* jobs: the job stores and the Add calls on them: mu is the goroutine that
\* holds FileJobStore.mu (0 for none), file the ids in jobs.json, rows the ids
\* in the schedulers table; of a call, id is its job, tasks its local slice
\* and listErr whether its List failed.
\* sess: store.SessionStore and the setter calls on it: mu is the goroutine
\* that holds SessionStore.mu, sessions the map; of a call, field, key and
\* value say what it sets and state is its local copy of the entry.
\* idx: Scheduler.mu and the indices under it: mu is <<"call", g>> or
\* <<"timer", g>> for the goroutine that holds the mutex, <<>> for none;
\* call is the method goroutine g is in, timer the goroutine of the one-shot g
\* added, cron the entry g added, whose jobs run in goroutines of their own.
\* typ: the awaited calls of a turn and their typing goroutines: call is the
\* number of the last call, awaiting whether it is under way, over whether the
\* turn has returned; of the goroutine of a call, cancelled is its context
\* and late whether it sent a typing signal after the cancellation.
IdleConc ==
    [jobs |->
       [mu |-> 0, file |-> <<>>, rows |-> {},
        add |-> [g \in Goroutines |->
                   [pc |-> "idle", store |-> "", id |-> 0, tasks |-> <<>>,
                    err |-> FALSE, listErr |-> FALSE]]],
     sess |->
       [mu |-> 0,
        sessions |-> [key \in {"k1", "k2"} |-> SessionState("", <<>>, FALSE)],
        set |-> [g \in Goroutines |->
                   [pc |-> "idle", field |-> "", key |-> "", value |-> "",
                    state |-> SessionState("", <<>>, FALSE)]]],
     idx |->
       [mu |-> <<>>, memCron |-> {}, memOneShot |-> {},
        call |-> [g \in Goroutines |-> "idle"],
        timer |-> [g \in Goroutines |-> "none"],
        cron |-> [g \in Goroutines |-> "none"]],
     typ |->
       [call |-> 0, awaiting |-> FALSE, over |-> FALSE,
        task |-> [c \in 1 .. MaxCalls |->
                    [pc |-> "none", cancelled |-> FALSE, late |-> FALSE]]],
     eng |->
       [modules |-> <<PassthroughModule>>, hasCache |-> FALSE, cache |-> {},
        ret |-> [op |-> "none", input |-> <<>>,
                 result |-> [Module |-> "", Input |-> <<>>, IR |-> <<>>,
                             Output |-> <<>>, Score |-> 0, Cached |-> FALSE],
                 err |-> Nil]]]

\* Engine.ProcessDetailed, with the normalizer New installs and the cache
\* of NewMemoryCache: the cache is the set of its entries
ProcessDetailed(e, input) ==
    LET normalized == TrimSpace(input)
        cached  == {c.result : c \in {c \in e.cache : c.key = normalized}}
        done(result) ==
            [e EXCEPT !.ret = [op |-> "Process", input |-> input,
                               result |-> result, err |-> Nil],
                      !.cache = IF e.hasCache /\ ~result.Cached
                                THEN {c \in @ : c.key # normalized}
                                     \cup {[key |-> normalized, result |-> result]}
                                ELSE @]
        failed(err) ==
            [e EXCEPT !.ret = [op |-> "Process", input |-> input,
                               result |-> IdleConc.eng.ret.result, err |-> err]]
        k       == SelectModule(e.modules, normalized, 1, 0)
        encoded == ModuleEncode(e.modules[k], normalized)
        decoded == ModuleDecode(e.modules[k], encoded.s)
    IN  IF e.hasCache /\ cached # {}
        THEN done([(CHOOSE r \in cached : TRUE) EXCEPT !.Cached = TRUE])
        ELSE IF k = 0
        THEN done([IdleConc.eng.ret.result EXCEPT !.Input = normalized,
                                                  !.Output = normalized])
        ELSE IF encoded.err # Nil THEN failed(encoded.err)
        ELSE IF decoded.err # Nil THEN failed(decoded.err)
        ELSE done([Module |-> e.modules[k].name, Input |-> normalized,
                   IR |-> encoded.s, Output |-> decoded.s,
                   Score |-> e.modules[k].score, Cached |-> FALSE])

\* engine := iron.New(), with WithCache(NewMemoryCache()) or without
EngineNew(withCache) ==
    /\ conc' = [conc EXCEPT !.eng = [IdleConc.eng EXCEPT !.hasCache = withCache]]
    /\ UNCHANGED <<pin, pout, sessions, turn, obs, sched, run>>

\* Engine.RegisterModule
RegisterModule(m) ==
    /\ Len(conc.eng.modules) < MaxModules
    /\ conc' = [conc EXCEPT
                  !.eng.modules = IF m.name = "" THEN @ ELSE Append(@, m),
                  !.eng.ret = [IdleConc.eng.ret EXCEPT
                                 !.op = "RegisterModule",
                                 !.err = IF m.name = ""
                                         THEN "module name cannot be empty"
                                         ELSE Nil]]
    /\ UNCHANGED <<pin, pout, sessions, turn, obs, sched, run>>

\* Engine.Process
Process(input) ==
    /\ conc' = [conc EXCEPT !.eng = ProcessDetailed(conc.eng, input)]
    /\ UNCHANGED <<pin, pout, sessions, turn, obs, sched, run>>

\* FileJobStore.Add, line 34: goroutine g takes the mutex
FileAdd(g, id) ==
    /\ conc.jobs.add[g].pc = "idle" /\ conc.jobs.mu = 0
    /\ conc' = [conc EXCEPT !.jobs.mu = g,
                            !.jobs.add[g].pc = "locked",
                            !.jobs.add[g].store = "file",
                            !.jobs.add[g].id = id]
    /\ UNCHANGED <<pin, pout, sessions, turn, obs, sched, run>>

\* FileJobStore.Add, line 36: tasks, _ := s.List(); a List that fails
\* (the file cannot be read or decoded) leaves tasks nil
FileList(g, fails) ==
    /\ conc.jobs.add[g].pc = "locked"
    /\ conc' = [conc EXCEPT !.jobs.add[g].pc = "listed",
                            !.jobs.add[g].listErr = fails,
                            !.jobs.add[g].tasks =
                                IF fails THEN <<>> ELSE conc.jobs.file]
    /\ UNCHANGED <<pin, pout, sessions, turn, obs, sched, run>>

\* FileJobStore.Add, lines 37-38, and save: the slice with the task appended
\* replaces the file, the mutex is released as Add returns
FileSave(g, fails) ==
    /\ conc.jobs.add[g].pc = "listed"
    /\ conc' = [conc EXCEPT !.jobs.mu = 0,
                            !.jobs.add[g].pc = "returned",
                            !.jobs.add[g].err = fails,
                            !.jobs.add[g].tasks = <<>>,
                            !.jobs.file =
                                IF fails THEN @
                                ELSE Append(conc.jobs.add[g].tasks,
                                            conc.jobs.add[g].id)]
    /\ UNCHANGED <<pin, pout, sessions, turn, obs, sched, run>>

\* SQLiteJobStore.Add and DB.AddJob: one INSERT OR REPLACE statement
DBAddJob(g, id, fails) ==
    /\ conc.jobs.add[g].pc = "idle"
    /\ conc' = [conc EXCEPT !.jobs.add[g].pc = "returned",
                            !.jobs.add[g].store = "sqlite",
                            !.jobs.add[g].id = id,
                            !.jobs.add[g].err = fails,
                            !.jobs.rows = IF fails THEN @ ELSE @ \cup {id}]
    /\ UNCHANGED <<pin, pout, sessions, turn, obs, sched, run>>

\* FileJobStore.List and SQLiteJobStore.List, once every Add has returned
StoreList(store) ==
    IF store = "file" THEN {conc.jobs.file[i] : i \in DOMAIN conc.jobs.file}
    ELSE conc.jobs.rows

SetterLockShared(g, key, arg) ==
    /\ conc.sess.set[g].pc = "idle"
    /\ conc' = [conc EXCEPT !.sess.mu = g,
                            !.sess.set[g].pc = "locked",
                            !.sess.set[g].field = arg[1],
                            !.sess.set[g].key = key,
                            !.sess.set[g].value = arg[2]]
    /\ UNCHANGED <<pin, pout, sessions, turn, obs, sched, run>>

\* SetSessionID, SetDir, SetUseLast, first line: s.mu.Lock()
SetterLock(g, key, arg) ==
    /\ conc.sess.set[g].pc = "idle" /\ conc.sess.mu = 0
    /\ conc' = [conc EXCEPT !.sess.mu = g,
                            !.sess.set[g].pc = "locked",
                            !.sess.set[g].field = arg[1],
                            !.sess.set[g].key = key,
                            !.sess.set[g].value = arg[2]]
    /\ UNCHANGED <<pin, pout, sessions, turn, obs, sched, run>>

\* state := s.sessions[key]
SetterRead(g) ==
    /\ conc.sess.set[g].pc = "locked"
    /\ conc' = [conc EXCEPT !.sess.set[g].pc = "read",
                            !.sess.set[g].state =
                                conc.sess.sessions[conc.sess.set[g].key]]
    /\ UNCHANGED <<pin, pout, sessions, turn, obs, sched, run>>

\* state.ID = value (or Dir, or UseLast); s.sessions[key] = state
SetterWrite(g) ==
    /\ conc.sess.set[g].pc = "read"
    /\ LET c == conc.sess.set[g]
           state == CASE c.field = "ID" -> SetSessionID(c.state, c.value)
                      [] c.field = "Dir" -> SetDir(c.state, c.value)
                      [] c.field = "UseLast" -> SetUseLast(c.state, c.value)
       IN  conc' = [conc EXCEPT !.sess.set[g].pc = "written",
                                !.sess.set[g].state = state,
                                !.sess.sessions[c.key] = state]
    /\ UNCHANGED <<pin, pout, sessions, turn, obs, sched, run>>

\* return s.save(), and the deferred s.mu.Unlock(): the call has completed,
\* whether or not the file could be written
SetterReturn(g) ==
    /\ conc.sess.set[g].pc = "written"
    /\ conc' = [conc EXCEPT !.sess.mu = 0,
                            !.sess.set[g] = IdleConc.sess.set[g]]
    /\ UNCHANGED <<pin, pout, sessions, turn, obs, sched, run>>

\* AddOneShot, AddTask and ListJobs up to their writing or reading of the
\* indices: s.mu.Lock() (lines 189, 180, 222), the entry written; AddTask has
\* had its entry accepted by the cron engine before (line 178)
MutexLock(g, op) ==
    /\ conc.idx.call[g] = "idle" /\ conc.idx.mu = <<>>
    /\ op = "AddOneShot" => conc.idx.timer[g] = "none"
    /\ op = "AddTask" => conc.idx.cron[g] = "none"
    /\ conc' = [conc EXCEPT
                  !.idx.mu = <<"call", g>>,
                  !.idx.call[g] = op,
                  !.idx.memOneShot = IF op = "AddOneShot" THEN @ \cup {g} ELSE @,
                  !.idx.memCron = IF op = "AddTask" THEN @ \cup {g} ELSE @,
                  !.idx.cron[g] = IF op = "AddTask" THEN "waiting" ELSE @]
    /\ UNCHANGED <<pin, pout, sessions, turn, obs, sched, run>>

\* s.mu.Unlock() (lines 191, 182, 223) and the return; AddOneShot arms its
\* timer on the way (line 193)
MutexUnlock(g) ==
    /\ conc.idx.call[g] # "idle"
    /\ conc' = [conc EXCEPT
                  !.idx.mu = <<>>,
                  !.idx.call[g] = "idle",
                  !.idx.timer[g] = IF conc.idx.call[g] = "AddOneShot"
                                   THEN "pending" ELSE @]
    /\ UNCHANGED <<pin, pout, sessions, turn, obs, sched, run>>

TimerFiresLocked(g) ==
    /\ conc.idx.timer[g] = "pending" /\ conc.idx.mu = <<>>
    /\ conc' = [conc EXCEPT !.idx.timer[g] = "running",
                            !.idx.mu = <<"timer", g>>]
    /\ UNCHANGED <<pin, pout, sessions, turn, obs, sched, run>>

\* the delay is over: the timer's goroutine starts, task() is under way
\* (line 194)
TimerFires(g) ==
    /\ conc.idx.timer[g] = "pending"
    /\ conc' = [conc EXCEPT !.idx.timer[g] = "running"]
    /\ UNCHANGED <<pin, pout, sessions, turn, obs, sched, run>>

\* task() has returned and the goroutine takes the mutex (line 195)
TimerLocks(g) ==
    /\ conc.idx.timer[g] = "running" /\ conc.idx.mu = <<>>
    /\ conc' = [conc EXCEPT !.idx.timer[g] = "deleting",
                            !.idx.mu = <<"timer", g>>]
    /\ UNCHANGED <<pin, pout, sessions, turn, obs, sched, run>>

\* delete(s.memOneShot, id); s.mu.Unlock() (lines 196-197)
TimerDeletes(g) ==
    /\ conc.idx.timer[g] = "deleting"
    /\ conc' = [conc EXCEPT !.idx.timer[g] = "none",
                            !.idx.mu = <<>>,
                            !.idx.memOneShot = @ \ {g}]
    /\ UNCHANGED <<pin, pout, sessions, turn, obs, sched, run>>

\* the cron engine starts the job of an entry in a goroutine of its own, or
\* that job returns; neither touches Scheduler.mu
CronJob(g) ==
    /\ conc.idx.cron[g] # "none"
    /\ conc' = [conc EXCEPT !.idx.cron[g] =
                                IF @ = "waiting" THEN "running" ELSE "waiting"]
    /\ UNCHANGED <<pin, pout, sessions, turn, obs, sched, run>>

\* startTyping: the goroutine is created and its cancel function returned;
\* the caller goes on to the call it awaits (main.go lines 189-190, 208-209,
\* 240-241, 278-279, 312-313)
StartTyping ==
    /\ ~conc.typ.over /\ ~conc.typ.awaiting /\ conc.typ.call < MaxCalls
    /\ conc' = [conc EXCEPT !.typ.call = @ + 1,
                            !.typ.awaiting = TRUE,
                            !.typ.task[conc.typ.call + 1].pc = "started"]
    /\ UNCHANGED <<pin, pout, sessions, turn, obs, sched, run>>

\* the awaited call returns and stopTyping() cancels the goroutine's context
StopTyping ==
    /\ conc.typ.awaiting
    /\ conc' = [conc EXCEPT !.typ.awaiting = FALSE,
                            !.typ.task[conc.typ.call].cancelled = TRUE]
    /\ UNCHANGED <<pin, pout, sessions, turn, obs, sched, run>>

\* the goroutine calls ta.SendTyping: once as it starts (line 353) and, in
\* its select, whenever the ticker is ready and chosen (lines 358-359);
\* telegram's SendTyping sends the chat action before it looks at the context
SendTyping(c) ==
    /\ conc.typ.task[c].pc \in {"started", "waiting"}
    /\ conc' = [conc EXCEPT !.typ.task[c].pc = "waiting",
                            !.typ.task[c].late = @ \/ conc.typ.task[c].cancelled]
    /\ UNCHANGED <<pin, pout, sessions, turn, obs, sched, run>>

\* the select takes <-typingCtx.Done() and the goroutine returns
TypingExits(c) ==
    /\ conc.typ.task[c].pc = "waiting" /\ conc.typ.task[c].cancelled
    /\ conc' = [conc EXCEPT !.typ.task[c].pc = "exited"]
    /\ UNCHANGED <<pin, pout, sessions, turn, obs, sched, run>>

\* handleMessage returns
TurnReturns ==
    /\ ~conc.typ.over /\ ~conc.typ.awaiting /\ conc.typ.call > 0
    /\ conc' = [conc EXCEPT !.typ.over = TRUE]
    /\ UNCHANGED <<pin, pout, sessions, turn, obs, sched, run>>

\* the arguments the schedule tool is called with
ToolInputs ==
    {[Spec |-> sp, When |-> w, Message |-> m, Adapter |-> a, Target |-> t] :
        sp \in {"once", "30m", "2020-01-01T00:00:00Z", "0 9 * * *", "bad"},
        w \in {"", "30m"}, m \in {"", "m1"}, a \in {"", "slack"},
        t \in {"", "42"}}

-----------------------------------------------------------------------------
(* Specifications *)

\* r := router.New(); r.Route(text)
CallRoute ==
    /\ pin.op = "Route" /\ ~pout.done
    /\ pout' = [pout EXCEPT !.done = TRUE, !.route = Route(pin.text)]
    /\ UNCHANGED <<pin, sessions, turn, obs, sched, run, conc>>

\* p.Validate(): the packet is only read
CallValidate ==
    /\ pin.op = "Validate" /\ ~pout.done
    /\ pout' = [pout EXCEPT !.done = TRUE, !.packet = pin.packet,
                            !.err = Validate(pin.packet)]
    /\ UNCHANGED <<pin, sessions, turn, obs, sched, run, conc>>

\* json.Unmarshal(data, &r)
CallUnmarshalJSON ==
    /\ pin.op = "UnmarshalJSON" /\ ~pout.done
    /\ pout' = [pout EXCEPT !.done = TRUE,
                            !.err = UnmarshalJSON(pin.r, pin.doc).err,
                            !.r = UnmarshalJSON(pin.r, pin.doc).r]
    /\ UNCHANGED <<pin, sessions, turn, obs, sched, run, conc>>

\* r.Get(name) on a registry of the tools and aliases given: the map
\* iteration of the third tier may come upon any of the tools that match
CallGet ==
    /\ pin.op = "Get" /\ ~pout.done
    /\ \E t \in IF RegistryGet(pin.tools, pin.aliases, pin.text) = {} THEN {<<>>}
                 ELSE RegistryGet(pin.tools, pin.aliases, pin.text) :
         pout' = [pout EXCEPT !.done = TRUE, !.tool = t]
    /\ UNCHANGED <<pin, sessions, turn, obs, sched, run, conc>>

\* the pure functions, each applied once to one input
PureInit ==
    /\ pin \in PureInputs
    /\ pout = PureOutput(FALSE, NoRoute, ZeroPacket, Nil, ZeroResponse)
    /\ sessions = SessionState("", <<>>, FALSE) /\ turn = IdleTurn /\ obs = NoObs
    /\ sched = IdleSched /\ run = IdleRun /\ conc = IdleConc

PureNext == CallRoute \/ CallValidate \/ CallUnmarshalJSON \/ CallGet

SpecPure == PureInit /\ [][PureNext]_vars

\* the program after start-up: no message in hand, an empty job store, no
\* job firing
Init ==
    /\ pin = PureInput("none", <<>>, ZeroPacket, ZeroResponse, InvalidDoc)
    /\ pout = PureOutput(FALSE, NoRoute, ZeroPacket, Nil, ZeroResponse)
    /\ sessions = SessionState("", <<>>, FALSE) /\ turn = IdleTurn /\ obs = NoObs
    /\ sched = IdleSched /\ run = IdleRun /\ conc = IdleConc

\* the message pipeline: one sender, one message after the other
PipeNext ==
    \/ \E m \in PipeTexts, pwd \in {<<>>, Lit.dir}, prompt \in BOOLEAN :
         \E outs \in OutcomeSeqs(RoutedTools(m)) : HandleMessage(m, pwd, prompt, outs)
    \/ \E out \in PipeOutcomes :
         \E outs \in OutcomesFor(ZeroResponse, out) : PrimaryReturns(out, outs)
    \/ \E out \in PipeOutcomes :
         \E outs \in OutcomesFor(ZeroResponse, out) : ContinueReturns(out, outs)
    \/ \E out \in PipeOutcomes :
         \E outs \in OutcomesFor(ZeroResponse, out) : ParseRepairReturns(out, outs)
    \/ \E out \in PipeOutcomes :
         \E outs \in OutcomesFor(turn.agentResp, out) : SemRepairReturns(out, outs)
    \/ NextMessage

SpecPipe == Init /\ [][PipeNext]_vars

\* the firings of the scheduled jobs, one after the other
RunNext ==
    \/ \E task \in Tasks : FireTask(task)
    \/ \E outcome \in UNION {ToolOutcomes(req) : req \in JobTools} : RunTool(outcome)
    \/ CallBackend
    \/ ReturnWithoutPrompt
    \/ \E failed \in BOOLEAN : BackendReturns(failed)
    \/ NextFiring

SpecRun == Init /\ [][RunNext]_vars

\* the schedule tool, the timers it sets and listJobs
SchedNext ==
    \/ \E in \in ToolInputs : ToolRun(in)
    \/ Tick
    \/ \E h \in 1..MaxOneShots, sendFails \in BOOLEAN : OneShotFires(h, sendFails)
    \/ \E h \in 1..MaxOneShots : OneShotRemoved(h)
    \/ \E listFails \in BOOLEAN : ListJobs(listFails)

SpecSched == Init /\ [][SchedNext]_vars

\* the schedule tool of the scheduler package of part_001 and part_002, and
\* its one-shots
FileStoreSchedNext ==
    \/ \E in \in ToolInputs : ToolRunFileStore(in)
    \/ Tick
    \/ \E h \in 1..MaxOneShots, sendFails \in BOOLEAN : OneShotFires(h, sendFails)

SpecFileStoreSched == Init /\ [][FileStoreSchedNext]_vars

\* the schedule_job tool with the arguments it is called with, restarts of
\* the process and listJobs
JobsNext ==
    \/ \E in \in {[Name |-> n, Cron |-> c, Prompt |-> p, Tools |-> <<>>,
                    Adapter |-> "", Target |-> t] :
                      n \in {"", "j1", "j2"}, c \in {"", "0 9 * * *", "bad"},
                      p \in {"", "summarise"}, t \in {"", "42"}},
          addFails \in BOOLEAN : ScheduleJobRun(in, addFails)
    \/ \E listFails \in BOOLEAN : Restart(listFails)
    \/ \E listFails \in BOOLEAN : ListJobs(listFails)

SpecJobs == Init /\ [][JobsNext]_vars

\* goroutines that add jobs to a job store, each one job
StoreNext ==
    \E g \in Goroutines :
      \/ \E id \in Goroutines : FileAdd(g, id)
      \/ \E fails \in BOOLEAN : FileList(g, fails)
      \/ \E fails \in BOOLEAN : FileSave(g, fails)
      \/ \E id \in Goroutines, fails \in BOOLEAN : DBAddJob(g, id, fails)

SpecStore == Init /\ [][StoreNext]_vars

\* goroutines that call the setters of the session store, over and over,
\* each call with a key, a field and a value for it
SessionsNext ==
    \E g \in Goroutines :
      \/ \E key \in {"k1", "k2"},
            arg \in ({"ID"} \X {"", "s1"}) \cup ({"Dir"} \X {<<>>, Lit.dir})
                      \cup ({"UseLast"} \X BOOLEAN) : SetterLock(g, key, arg)
      \/ SetterRead(g)
      \/ SetterWrite(g)
      \/ SetterReturn(g)

SpecSessions == Init /\ [][SessionsNext]_vars

\* goroutines that call AddOneShot, AddTask and ListJobs, and the
\* goroutines of the jobs these have scheduled
MutexNext ==
    \E g \in Goroutines :
      \/ \E op \in {"AddOneShot", "AddTask", "ListJobs"} : MutexLock(g, op)
      \/ MutexUnlock(g)
      \/ TimerFires(g)
      \/ TimerLocks(g)
      \/ TimerDeletes(g)
      \/ CronJob(g)

SpecMutex == Init /\ [][MutexNext]_vars

\* one turn, its awaited calls one after the other, and their typing
\* goroutines
TypingNext ==
    \/ StartTyping
    \/ StopTyping
    \/ \E c \in 1 .. MaxCalls : SendTyping(c)
    \/ \E c \in 1 .. MaxCalls : TypingExits(c)
    \/ TurnReturns

SpecTyping == Init /\ [][TypingNext]_vars

\* an engine that is made, given modules and called, in any order
EngineNext ==
    \/ \E withCache \in BOOLEAN : EngineNew(withCache)
    \/ \E m \in EngineModules : RegisterModule(m)
    \/ \E input \in {<<"x">>, <<" ", "x", " ">>, <<"y">>} : Process(input)

SpecEngine == Init /\ [][EngineNext]_vars

-----------------------------------------------------------------------------
(* Claims about the message pipeline, checked under SpecPipe *)

\* the turn of the message in hand is over
TurnOver == turn.pc \in {"done", "crashed"}

C2_OneParseRepairPerReply ==
    /\ obs.calls.parseRepair <= 1
    /\ (obs.replyUndecoded <=> obs.calls.parseRepair = 1)
    /\ (obs.repair.returned /\ obs.repair.decodes) =>
           /\ obs.gate.seen
           /\ obs.gate.repaired
           /\ obs.gate.fromRepair

C2_Witness ==
    /\ obs.replyUndecoded /\ obs.calls.parseRepair = 1
    /\ obs.repair.returned /\ obs.repair.decodes
    /\ obs.gate.seen /\ obs.gate.fromRepair
    /\ obs.calls.continue = 2
    /\ "status_summary" \in obs.sent

\* the router's rules in their order of declaration: the condition of rule
\* k on a trimmed text, and the intent it gives
RuleHolds(k, text) ==
    LET lower == ToLower(text)
    IN  CASE k = 1 -> lower \in {Lit.slashhelp, Lit.help}
          [] k = 2 -> lower = Lit.ping
          [] k = 3 -> HasNotePrefix(lower) /\ NoteContent(text) # <<>>
          [] k = 4 -> /\ HasPrefix(lower, Lit.list_space)
                      /\ Len(ListParts(text)) >= 2
                      /\ ListParts(text)[2] \in {Lit.plus_eq, Lit.minus_eq, Lit.question}

RuleIntent(k, text) ==
    CASE k = 1 -> "help"
      [] k = 2 -> "ping"
      [] k = 3 -> "notes.append"
      [] k = 4 -> IF ListParts(text)[2] = Lit.plus_eq THEN "list.add"
                  ELSE IF ListParts(text)[2] = Lit.minus_eq THEN "list.remove"
                  ELSE "list.show"

FirstRule(text) ==
    CHOOSE k \in 1..4 : RuleHolds(k, text) /\ \A j \in 1..(k - 1) : ~RuleHolds(j, text)

\* C4: when the text of the message in hand satisfies a router rule, Route
\* matches it with the intent of the first rule it satisfies, and the turn
\* makes no primary, repair or continuation call.
C4_RoutedWithoutBackend ==
    (turn.pc # "idle" /\ \E k \in 1..4 : RuleHolds(k, TrimSpace(turn.msg))) =>
        /\ Route(turn.msg).ok
        /\ Route(turn.msg).packet.p.Intent
             = RuleIntent(FirstRule(TrimSpace(turn.msg)), TrimSpace(turn.msg))
        /\ obs.calls = NoCalls
        /\ turn.pc = "done"

C4_Witness ==
    /\ turn.pc = "done" /\ obs.path = "router"
    /\ turn.msg = <<"n","o","t","e",":"," ","a">>
    /\ obs.routed.ok /\ obs.routed.packet.p.Intent = "notes.append"
    /\ obs.calls = NoCalls
    /\ Lit.notes_append \in obs.toolsRun

\* C9: the message "/help" is handled on the router path: the router
\* matches it with intent help, the reply sent is the router's reply for
\* that intent, and no tool but a help tool runs.
C9_HelpTakesRouterPath ==
    (turn.pc # "idle" /\ TrimSpace(turn.msg) = Lit.slashhelp) =>
        /\ obs.path = "router"
        /\ obs.routed.ok
        /\ obs.routed.packet.p.Intent = "help"
        /\ obs.answer = "Available commands: note: <text>, ping, or speak naturally."
        /\ obs.toolsRun \subseteq {Lit.help}

\* C11: the turn never reaches a crashed (panicked) state, whatever the
\* backend replies and the tools do.
C11_NeverCrashes == turn.pc # "crashed"

\* C12: once a decoded response without a packet has passed the gate, the
\* turn is over: no tool has run for it and no continuation call is under
\* way, whatever its continuation flag.
C12_NoPacketEndsTurn ==
    obs.gate.end = "nopacket" =>
        /\ turn.pc = "done"
        /\ obs.results = <<>> /\ obs.toolsRun = {}

\* C13: once a validated packet with action list_reminders has been
\* handled, none of its tools has run, the job listing has been sent and the
\* turn is over with no continuation call under way, whatever the flag.
C13_ListRemindersNeverContinues ==
    obs.gate.end = "jobs" =>
        /\ obs.results = <<>> /\ obs.toolsRun = {}
        /\ "jobs" \in obs.sent
        /\ turn.pc = "done"

C16_BackendErrorReported ==
    (turn.pc = "done" /\ obs.backendErr) => obs.errMsgs >= 1

\* C17: once a backend call of the turn has returned an error, the turn is
\* over: no backend call is under way and no tool has run since the reply
\* that led to the failed call.
C17_NoRetryAfterBackendError ==
    obs.backendErr =>
        /\ turn.pc = "done"
        /\ obs.results = <<>> /\ obs.toolsRun = {}

C17_Witness ==
    /\ obs.backendErr /\ turn.pc = "done"
    /\ obs.calls.continue = 2 /\ obs.calls.semRepair = 1

C19_ToolsInOrder ==
    /\ \A k \in 1..Len(obs.results) :
          k <= Len(obs.declared) /\ obs.results[k].name = obs.declared[k]
    /\ turn.pc = "continue" => Len(obs.results) = Len(obs.declared)

C19_Witness ==
    /\ turn.pc = "continue" /\ obs.calls.continue = 2
    /\ obs.declared = <<Lit.schedule, Lit.notes_append>>
    /\ Len(obs.results) = 2
    /\ obs.results[1].tool = Lit.schedule /\ obs.results[2].tool = Lit.notes_append

\* the control command a message text is recognised as: "reset", "shell",
\* "dir" or "none"
ControlKind(m) ==
    LET text == TrimSpace(m)
    IN  IF text = Lit.new THEN "reset"
        ELSE IF HasPrefix(text, Lit.bang) THEN "shell"
        ELSE IF \/ HasPrefix(text, Lit.slash_cd)
                \/ (HasPrefix(text, Lit.cd) /\ ~Contains(text, <<"\n">>))
        THEN "dir"
        ELSE "none"

\* a message arrives and is handled as a control command of this kind: the
\* store changes as the command says and in no other way
OwnSideEffect(kind) ==
    /\ turn.pc = "idle" /\ turn'.pc # "idle" /\ ControlKind(turn'.msg) = kind
    /\ CASE kind = "reset" -> sessions' = [sessions EXCEPT !.UseLast = FALSE, !.Dir = <<>>]
         [] kind = "dir" ->
              sessions' = [sessions EXCEPT !.Dir = ParseDirCommand(turn'.msg)[1]]
         [] kind = "shell" ->
              /\ sessions'.ID = sessions.ID /\ sessions'.UseLast = sessions.UseLast
              /\ (sessions'.Dir # sessions.Dir =>
                     HasPrefix(TrimSpace(SubSeq(turn'.text, 2, Len(turn'.text))), Lit.cd))

\* the turn is over in the step the message arrived in, without backend
\* call, router match or tool execution
ShortCircuits ==
    /\ turn'.pc = "done"
    /\ obs'.calls = NoCalls /\ ~obs'.routed.ok /\ obs'.results = <<>>

\* C23 as stated: a message recognised as a session-reset, directory-change
\* or raw-shell command has its own side effect only and ends the turn with
\* no backend call, no router match and no tool execution.
C23_ControlCommandsShortCircuit ==
    [][\A kind \in {"reset", "dir", "shell"} :
          (turn.pc = "idle" /\ turn'.pc # "idle" /\ ControlKind(turn'.msg) = kind) =>
              OwnSideEffect(kind) /\ ShortCircuits]_vars

\* C23, amended: the same for a session-reset command, a raw-shell command
\* and a directory-change command that names a directory and nothing more;
\* a directory-change command "cd DIR && REST" persists DIR and then has REST
\* handled as the message text, by the router or else by the backend.
C23_ControlCommandsShortCircuitUnlessRest ==
    [][\A kind \in {"reset", "dir", "shell"} :
          (turn.pc = "idle" /\ turn'.pc # "idle" /\ ControlKind(turn'.msg) = kind) =>
              /\ OwnSideEffect(kind)
              /\ IF kind = "dir" /\ ParseDirCommand(turn'.msg)[2] # <<>>
                 THEN /\ turn'.text = ParseDirCommand(turn'.msg)[2]
                      /\ IF Route(turn'.text).ok
                         THEN obs'.routed = Route(turn'.text) /\ turn'.pc = "done"
                         ELSE obs'.calls.primary = 1 /\ turn'.pc = "primary"
                 ELSE ShortCircuits]_vars

C23_Witness ==
    /\ turn.pc = "done" /\ obs.path = "new"
    /\ sessions.ID = "s1" /\ ~sessions.UseLast /\ sessions.Dir = <<>>

\* C24: a primary call issued while the store says the session does not
\* continue (after the first successful call only a session reset brings
\* that about) carries an empty session id and a false continuation flag.
C24_ResetStartsFreshConversation ==
    (turn.pc = "primary" /\ ~sessions.UseLast) =>
        turn.call.sid = "" /\ ~turn.call.useLast

\* a backend call of the turn is in flight
CallInFlight == turn.pc \in {"primary", "continue", "parseRepair", "semRepair"}

\* the stored continuation flag is false exactly from the start, or from a
\* session reset, until a primary call succeeds
FlagTracksFreshness ==
    [][/\ (~sessions.UseLast /\ sessions'.UseLast) =>
             (turn.pc = "primary" /\ ~obs'.backendErr)
       /\ (turn.pc = "primary" /\ turn'.pc # "primary" /\ ~obs'.backendErr) =>
             sessions'.UseLast
       /\ (sessions.UseLast /\ ~sessions'.UseLast) =>
             (turn.pc = "idle" /\ ControlKind(turn'.msg) = "reset")
       /\ (turn.pc = "idle" /\ turn'.pc # "idle" /\ ControlKind(turn'.msg) = "reset") =>
             ~sessions'.UseLast]_vars

\* C29, as stated: the preamble is in front of the text of a backend call
\* exactly when the call is the primary call of a turn that started with the
\* stored continuation flag false, that is of the first dispatched turn of a
\* fresh or reset session and of every turn until a primary call succeeds;
\* repair and continuation calls never carry it
C29_PreambleExactlyOnFreshTurns ==
    /\ [](CallInFlight =>
            (turn.call.preamble <=> (turn.pc = "primary" /\ ~sessions.UseLast)))
    /\ FlagTracksFreshness

\* C29, amended: the same, on the turns that can read prompt.txt; a turn that
\* cannot read it sends the bare text
C29_PreambleOnFreshTurnsWithPromptFile ==
    /\ [](CallInFlight =>
            /\ turn.call.preamble <=>
                  (turn.pc = "primary" /\ ~sessions.UseLast /\ obs.promptRead)
            /\ obs.promptRead => ~turn.state.UseLast)
    /\ FlagTracksFreshness

\* a reset session is asked with the preamble again, after a turn of the
\* session before it that went without
C29_Witness ==
    /\ turn.pc = "primary" /\ turn.call.preamble
    /\ sessions.ID = "s1" /\ ~sessions.UseLast

\* C30: a primary call that succeeds leaves the store entry with the
\* continuation flag true and with the session id and the directory the
\* backend reported, where these are non-empty and differ from the snapshot
\* taken at the start of the turn; a primary call that fails leaves the entry
\* as it was
C30_StoreFollowsPrimaryCall ==
    [][(turn.pc = "primary" /\ turn'.pc # "primary") =>
         IF obs'.backendErr
         THEN sessions' = sessions
         ELSE LET resp == ExecResponse(turn.state.ID, turn.state.Dir,
                                       ExecOutcome(FALSE, InvalidDoc,
                                                   obs'.reported.sid,
                                                   obs'.reported.dir))
              IN  /\ sessions'.UseLast
                  /\ (resp.SessionID # "" /\ resp.SessionID # turn.state.ID) =>
                        sessions'.ID = resp.SessionID
                  /\ (resp.NewDir # <<>> /\ resp.NewDir # turn.state.Dir) =>
                        sessions'.Dir = resp.NewDir]_vars

\* a primary call has succeeded and the entry took the id and the directory
\* its output named
C30_Witness ==
    /\ obs.calls.primary = 1 /\ ~obs.backendErr /\ turn.pc = "done"
    /\ obs.reported.sid = "s1" /\ obs.reported.dir = Lit.dir
    /\ sessions = SessionState("s1", Lit.dir, TRUE)

\* C38: on the backend path, whenever tools of a packet have been attempted
\* the packet is one that passes validation, and it was let through the gate
\* either at the first validation or after the one semantic-repair call that
\* followed a failed first validation.
C38_NoToolBeforeValidation ==
    (obs.path = "backend" /\ obs.results # <<>>) =>
        /\ Validate(obs.packet) = Nil
        /\ obs.declared = [k \in 1..Len(obs.packet.Tools) |-> obs.packet.Tools[k].Name]
        /\ obs.gate.seen /\ obs.gate.end = "tools"
        /\ obs.calls.semRepair = IF obs.gate.invalid THEN 1 ELSE 0

C38_Witness ==
    /\ obs.path = "backend" /\ obs.gate.invalid /\ obs.calls.semRepair = 1
    /\ obs.gate.end = "tools" /\ Validate(obs.packet) = Nil
    /\ Len(obs.results) = 2 /\ obs.toolsRun # {}

\* C31: every continuation call and every repair call of a turn is made with
\* the session id and the directory most recently reported by an earlier
\* backend call of the turn, and with those of the snapshot where none was
\* reported, also when it was the first call of the turn that reported a new
\* directory
C31_LaterCallsUseLatestSession ==
    (turn.pc \in {"continue", "parseRepair", "semRepair"}) =>
        /\ turn.call.sid = IF obs.reported.sid # "" THEN obs.reported.sid
                           ELSE turn.state.ID
        /\ turn.call.dir = IF obs.reported.dir # <<>> THEN obs.reported.dir
                           ELSE turn.state.Dir

\* the arguments carry a target
HasTarget(args) == \E kv \in args : kv[1] = "target"

\* C33: a request that resolves to the tool schedule or schedule_job, by its
\* name or through an alias, is run with a target in its arguments: the chat
\* of the message where the request came without one, the one it came with
\* otherwise; every other tool is run with the arguments of its request
C33_TargetInjected ==
    \A k \in DOMAIN obs.results :
        LET r == obs.results[k]
        IN  r.tool # <<>> =>
              IF r.tool \in {Lit.schedule, Lit.schedule_job}
              THEN r.args = IF HasTarget(r.given) THEN r.given
                            ELSE r.given \cup {<<"target", SenderID>>}
              ELSE r.args = r.given

\* the same of the requests that name the tool itself
C33_TargetInjectedByName ==
    \A k \in DOMAIN obs.results :
        LET r == obs.results[k]
        IN  r.tool # <<>> =>
              IF r.name \in {Lit.schedule, Lit.schedule_job}
              THEN r.args = IF HasTarget(r.given) THEN r.given
                            ELSE r.given \cup {<<"target", SenderID>>}
              ELSE r.args = r.given

\* C34: every request of a packet that fails, its tool not found or its run
\* in error, is announced by a system-tagged message of its own and counted
\* as a failure in the summary; a request that succeeds is not announced
C34_EveryFailureAnnounced ==
    /\ \A k \in DOMAIN obs.results :
          obs.results[k].announced <=> obs.results[k].err # Nil
    /\ obs.results # <<>> =>
          obs.summary.fail =
              Cardinality({k \in DOMAIN obs.results : obs.results[k].err # Nil})

\* the same of the requests whose tool was found
C34_EveryFailedRunAnnounced ==
    /\ \A k \in DOMAIN obs.results :
          obs.results[k].tool # <<>> =>
              (obs.results[k].announced <=> obs.results[k].err # Nil)
    /\ obs.results # <<>> =>
          obs.summary.fail =
              Cardinality({k \in DOMAIN obs.results : obs.results[k].err # Nil})

-----------------------------------------------------------------------------
(* Claims about goroutines that share a store, checked under SpecStore *)

\* the Add calls on a store have all returned, all without error, and their
\* jobs have ids of their own
AllAdded(store) ==
    LET add == conc.jobs.add
    IN  /\ \A g \in Goroutines :
             add[g].pc = "returned" /\ add[g].store = store /\ ~add[g].err
        /\ \A g, h \in Goroutines : add[g].id = add[h].id => g = h

\* C25: no concurrent Add is lost: when jobs with ids of their own have been
\* added to a store by concurrent calls that all reported success, the
\* store's listing holds every one of them
C25_NoAddIsLost ==
    \A store \in {"file", "sqlite"} :
        AllAdded(store) =>
            \A g \in Goroutines : conc.jobs.add[g].id \in StoreList(store)

\* the same, of the calls whose own listing of the file did not fail
C25_NoAddIsLostWhenListed ==
    \A store \in {"file", "sqlite"} :
        (AllAdded(store) /\ \A g \in Goroutines : ~conc.jobs.add[g].listErr) =>
            \A g \in Goroutines : conc.jobs.add[g].id \in StoreList(store)

-----------------------------------------------------------------------------
(* Claims about the setters of the session store, checked under             *)
(* SpecSessions                                                             *)

\* C26: each setter of the session store is atomic and changes only the
\* field it names of the key it names: the map changes only as a setter
\* writes, and then only in that field of that key; when a setter completes
\* the field holds its value, so that of setters that race on one field of
\* one key the last to complete wins; no other field or key is altered
C26_SettersAreAtomic ==
    [][\A g \in Goroutines :
         LET c == conc.sess.set[g]
         IN  /\ (c.pc = "read" /\ conc'.sess.set[g].pc = "written") =>
                   conc'.sess.sessions =
                       [conc.sess.sessions EXCEPT ![c.key][c.field] = c.value]
             /\ (c.pc = "written" /\ conc'.sess.set[g].pc = "idle") =>
                   /\ conc.sess.sessions[c.key][c.field] = c.value
                   /\ conc'.sess.sessions = conc.sess.sessions
             /\ (\A h \in Goroutines : conc.sess.set[h].pc # "read") =>
                   conc'.sess.sessions = conc.sess.sessions]_vars

\* a setter has written the directory of an entry whose id and flag other
\* calls have set, and the entry of the other key is as it was
C26_Witness ==
    /\ \E g \in Goroutines :
         /\ conc.sess.set[g].pc = "written"
         /\ conc.sess.set[g].field = "Dir" /\ conc.sess.set[g].key = "k1"
    /\ conc.sess.sessions["k1"] = SessionState("s1", Lit.dir, TRUE)
    /\ conc.sess.sessions["k2"] = SessionState("", <<>>, FALSE)

-----------------------------------------------------------------------------
(* Claims about the scheduler's mutex, checked under SpecMutex *)

\* C27: the scheduler's mutex is held only while the in-memory indices are
\* accessed and never while the action of a job executes: its holder is in
\* AddOneShot, AddTask or ListJobs at the index, or is a one-shot's goroutine
\* deleting its entry after the action; so a call of AddOneShot, AddTask or
\* ListJobs is never blocked by a running action: with the mutex free it can
\* go on, and a holder of the mutex can release it, whatever actions run
C27_MutexNotHeldByActions ==
    LET idx == conc.idx
    IN  /\ \A g \in Goroutines :
             /\ idx.mu = <<"call", g>> <=> idx.call[g] # "idle"
             /\ idx.mu = <<"timer", g>> <=> idx.timer[g] = "deleting"
        /\ (idx.mu = <<>>) =>
              \A g \in Goroutines :
                  idx.call[g] = "idle" => ENABLED MutexLock(g, "ListJobs")
        /\ (idx.mu # <<>>) =>
              ENABLED (MutexUnlock(idx.mu[2]) \/ TimerDeletes(idx.mu[2]))

\* a call of ListJobs holds the mutex while the action of a one-shot and the
\* job of a cron entry execute
C27_Witness ==
    \E g, h \in Goroutines :
        /\ conc.idx.call[g] = "ListJobs" /\ conc.idx.mu = <<"call", g>>
        /\ conc.idx.timer[h] = "running" /\ conc.idx.cron[h] = "running"

-----------------------------------------------------------------------------
(* Claims about the typing indicator, checked under SpecTyping *)

\* every typing goroutine is cancelled once its call has returned, at most
\* one is uncancelled at any time, and none when the turn has returned
TypingTasksCancelled ==
    LET typ == conc.typ
        live == {c \in 1 .. MaxCalls :
                    typ.task[c].pc # "none" /\ ~typ.task[c].cancelled}
    IN  /\ live = IF typ.awaiting THEN {typ.call} ELSE {}
        /\ typ.over => live = {}

\* C28: every typing goroutine is cancelled as soon as the call it
\* accompanies returns, so that at most one is uncancelled at any time and
\* none at the end of the turn, and no typing signal is sent for a call after
\* that call has returned
C28_NoTypingAfterCallReturns ==
    /\ TypingTasksCancelled
    /\ \A c \in 1 .. MaxCalls : ~conc.typ.task[c].late

-----------------------------------------------------------------------------
(* Claims about the firing of jobs, checked under SpecRun *)

\* the texts a firing sent, in order
Sends(trace) == SelectSeq(trace, LAMBDA e : e.ev = "send")

\* one <<name, target>> pair per request of reqs and target, request by
\* request
RECURSIVE Pairs(_, _)
Pairs(reqs, targets) ==
    IF Len(reqs) = 0 THEN <<>>
    ELSE [j \in 1..Len(targets) |-> <<Head(reqs).Name, targets[j]>>]
         \o Pairs(Tail(reqs), targets)

\* the <<label, target>> pairs of the texts sent
SentPairs(trace) ==
    [j \in 1..Len(Sends(trace)) |-> <<Sends(trace)[j].name, Sends(trace)[j].target>>]

\* C6 as stated: a firing of a job without prompt sends exactly one text
\* per tool and target, in the order of the tools, under the tool's name.
C6_OneMessagePerToolAndTarget ==
    (run.pc = "done" /\ run.task.Prompt = "") =>
        SentPairs(run.trace) = Pairs(run.task.Tools, run.task.Targets)

\* C6, amended: a firing of a job without prompt whose adapter is registered
\* sends exactly one text per target for each tool request that the
\* registry resolves, in the order of the requests, under the requested
\* name, the text being the tool's output or its error; nothing is sent for
\* a request the registry does not resolve, nor when the adapter is not
\* registered.  With one resolved tool and the one target "42" exactly one
\* text goes out, to "42".
C6_OneMessagePerResolvedToolAndTarget ==
    (run.pc = "done" /\ run.task.Prompt = "") =>
        /\ SentPairs(run.trace) =
             IF run.task.Adapter \in RegisteredAdapters
             THEN Pairs(SelectSeq(run.task.Tools, LAMBDA r : Get(r.Name) # {}),
                        run.task.Targets)
             ELSE <<>>
        /\ \A j \in 1..Len(Sends(run.trace)) :
             Sends(run.trace)[j].body \in {"output", "error"}
        /\ (/\ Len(run.task.Tools) = 1 /\ Get(run.task.Tools[1].Name) # {}
            /\ run.task.Targets = <<"42">>
            /\ run.task.Adapter \in RegisteredAdapters) =>
               /\ Len(Sends(run.trace)) = 1
               /\ Sends(run.trace)[1].target = "42"

C6_Witness ==
    /\ run.pc = "done" /\ run.task.Prompt = ""
    /\ run.task.Adapter = "telegram"
    /\ run.task.Tools = <<ToolRequest(Lit.list_show, {<<"list", <<"a">> >>})>>
    /\ run.task.Targets = <<"42">>
    /\ Len(Sends(run.trace)) = 1
    /\ Sends(run.trace)[1].body = "output"

\* C7: a firing makes no backend call when the job has no prompt and
\* exactly one when it has; that call comes after the last listed tool has
\* run, its prompt carries one entry per listed tool in the declared order,
\* and with a prompt no tool's output is sent as a text of its own.
C7_OneBackendCallAfterTools ==
    /\ run.calls <= 1
    /\ (run.task.Prompt = "" => run.calls = 0)
    /\ (run.pc = "done" /\ run.task.Prompt # "" => run.calls = 1)
    /\ \A i \in 1..Len(run.trace) :
         run.trace[i].ev = "exec" =>
           /\ \A j \in 1..Len(run.trace) : run.trace[j].ev = "tool" => j < i
           /\ Len(run.trace[i].context) = Len(run.task.Tools)
           /\ \A k \in 1..Len(run.task.Tools) :
                /\ run.trace[i].context[k].name = run.task.Tools[k].Name
                /\ (run.trace[i].context[k].kind = "notfound"
                      <=> Get(run.task.Tools[k].Name) = {})
    /\ (run.task.Prompt # "" =>
          \A j \in 1..Len(Sends(run.trace)) : Sends(run.trace)[j].body = "reply")

C7_Witness ==
    /\ run.pc = "done" /\ run.task.Prompt # "" /\ run.calls = 1
    /\ Len(run.task.Tools) = 2 /\ run.task.Tools[1] # run.task.Tools[2]
    /\ Len(Sends(run.trace)) = 2
    /\ run.err = Nil

-----------------------------------------------------------------------------
(* Claims about one-shots, checked under SpecSched, and about persisted
   jobs, checked under SpecJobs *)

\* C8: a one-shot is in the one-shot index, and among the lines of
\* listJobs, from AddOneShot until its timer fires, and in neither once its
\* action has run and the entry is deleted, whatever the action's send did.
C8_OneShotIndexedUntilFired ==
    \A h \in 1..Len(sched.timers) :
        /\ sched.timers[h].st = "pending" =>
             /\ \E e \in sched.memOneShot : e.id = sched.timers[h].id
             /\ (sched.ret.op = "ListJobs" =>
                   \E l \in sched.ret.lines :
                       l.kind = "OneShot" /\ l.id = sched.timers[h].id)
        /\ (/\ sched.timers[h].st = "gone"
            /\ \A g \in 1..Len(sched.timers) :
                 g # h => sched.timers[g].id # sched.timers[h].id) =>
             /\ \A e \in sched.memOneShot : e.id # sched.timers[h].id
             /\ (sched.ret.op = "ListJobs" =>
                   \A l \in sched.ret.lines :
                       ~(l.kind = "OneShot" /\ l.id = sched.timers[h].id))

\* C20: when startup could load the persisted jobs, every persisted job
\* with a valid trigger is registered with the cron engine, wherever a job
\* whose registration failed stands in the store.
C20_ValidPersistedJobsRegistered ==
    sched.loaded =>
    \A k \in 1..Len(sched.store) :
        SpecKind(sched.store[k].Cron) = "cron" =>
            \E e \in 1..Len(sched.registered) : sched.registered[e] = sched.store[k]

\* C21: a schedule_job call in which the store's add fails returns that
\* error and leaves the cron engine's entries, and the store, as they were.
C21_StoreFailureAbortsRegistration ==
    [][(sched'.jobReqs = sched.jobReqs + 1 /\ sched'.ret.err = "store error") =>
          /\ sched'.ret.op = "schedule_job"
          /\ sched'.registered = sched.registered
          /\ sched'.entries = sched.entries
          /\ sched'.store = sched.store]_vars

C21_Witness ==
    /\ sched.ret.op = "schedule_job" /\ sched.ret.err = "store error"
    /\ Len(sched.registered) = 1 /\ sched.entries = 1
    /\ sched.jobReqs = 2

\* C22: a schedule_job call that returns an error leaves the cron engine's
\* entries and the persistent store as they were.
C22_FailedSchedulingLeavesNothing ==
    [][(sched'.jobReqs = sched.jobReqs + 1 /\ sched'.ret.err # Nil) =>
          /\ sched'.registered = sched.registered
          /\ sched'.store = sched.store]_vars

-----------------------------------------------------------------------------
(* Claims about the tool registry, checked under SpecPure *)

\* C32: the registry resolves a name in tiers, whatever its case: a name
\* that is the name of a registered tool resolves to that tool, whatever
\* aliases and substring matches there are; otherwise a name that is an alias
\* of a registered tool resolves to that tool; otherwise the result is some
\* registered tool whose name contains the name asked for or is contained in
\* it; and no tool is returned only when none of the three applies
C32_RegistryTiers ==
    (pin.op = "Get" /\ pout.done) =>
        LET name == ToLower(pin.text)
            targets == {a[2] : a \in {x \in pin.aliases :
                                         x[1] = name /\ x[2] \in pin.tools}}
            similar == {t \in pin.tools : Contains(t, name) \/ Contains(name, t)}
        IN  IF name \in pin.tools THEN pout.tool = name
            ELSE IF targets # {} THEN pout.tool \in targets
            ELSE IF similar # {} THEN pout.tool \in similar
            ELSE pout.tool = <<>>

\* "LiSt" is asked for where list and list_add are registered and list is
\* also an alias of list_add: the tool list is returned
C32_Witness ==
    /\ pin.op = "Get" /\ pout.done
    /\ pin.text = <<"L","i","S","t">>
    /\ <<"l","i","s","t","_","a","d","d">> \in pin.tools
    /\ <<<<"l","i","s","t">>, <<"l","i","s","t","_","a","d","d">>>> \in pin.aliases
    /\ pout.tool = <<"l","i","s","t">>

-----------------------------------------------------------------------------
(* Claims about the schedule tool, listJobs and the persisted jobs, checked *)
(* under SpecSched and SpecJobs and, of the scheduler package of part_001   *)
(* and part_002, under SpecFileStoreSched                                   *)

\* C35: a complete schedule request whose spec is an absolute timestamp in
\* the past is accepted: the tool returns success and a one-shot with no
\* delay is set, which sends the message of the request to its target
C35_PastTimestampAccepted ==
    [][(sched'.reqs = sched.reqs + 1 /\ sched'.ret.kind = "past") =>
         /\ sched'.ret.err = Nil
         /\ Len(sched'.timers) = Len(sched.timers) + 1
         /\ LET timer == sched'.timers[Len(sched'.timers)]
            IN  /\ timer.st = "pending" /\ timer.desc.delay = "0s"
                /\ timer.msg # "" /\ timer.target # ""]_vars


\* C36: a call of listJobs returns no error and changes neither the store nor
\* the indices; its lines are one for each persisted job, one for each entry
\* of the cron index and one for each one-shot that was added and whose entry
\* has not been deleted; its output is the sentinel exactly when there is no
\* such job, entry or one-shot.
C36_ListJobsListsEverything ==
    [][(sched'.ret.op = "ListJobs" /\ sched.ret.op # "ListJobs") =>
         LET lines(kind) == {l \in sched'.ret.lines : l.kind = kind}
             live == {h \in 1..Len(sched.timers) : sched.timers[h].st # "gone"}
         IN  /\ sched'.ret.err = Nil
             /\ sched' = [sched EXCEPT !.ret = sched'.ret]
             /\ Cardinality(lines("Persistent")) = Len(sched.store)
             /\ Cardinality(lines("Cron")) = Cardinality(sched.memCron)
             /\ Cardinality(lines("OneShot")) = Cardinality(live)
             /\ (sched'.ret.output = "No known scheduled jobs."
                   <=> (sched.store = <<>> /\ sched.memCron = {} /\ live = {}))]_vars

\* C36 with the one-shots counted by their entries in the index and the
\* persisted jobs only when the store's List succeeds
C36_ListJobsListsIndices ==
    [][(sched'.ret.op = "ListJobs" /\ sched.ret.op # "ListJobs") =>
         LET lines(kind) == {l \in sched'.ret.lines : l.kind = kind}
         IN  /\ sched'.ret.err = Nil
             /\ sched' = [sched EXCEPT !.ret = sched'.ret]
             /\ Cardinality(lines("Persistent")) \in {0, Len(sched.store)}
             /\ Cardinality(lines("Cron")) = Cardinality(sched.memCron)
             /\ Cardinality(lines("OneShot")) = Cardinality(sched.memOneShot)
             /\ (sched'.ret.output = "No known scheduled jobs."
                   <=> sched'.ret.lines = {})]_vars

\* C40: every one-shot that was added and has not fired has an entry of its
\* own in the one-shot index, and a line of its own among the lines of
\* listJobs, also when several were added at one clock reading and after
\* another one-shot has fired and its entry was deleted.
C40_EveryPendingOneShotHasOwnEntry ==
    LET pending == {h \in 1..Len(sched.timers) : sched.timers[h].st = "pending"}
        entry(h) == {e \in sched.memOneShot : e.id = sched.timers[h].id}
    IN  /\ \A h \in pending : entry(h) # {}
        /\ \A g, h \in pending : g # h => entry(g) \cap entry(h) = {}
        /\ (sched.ret.op = "ListJobs" =>
              Cardinality({l \in sched.ret.lines : l.kind = "OneShot"})
                  >= Cardinality(pending))

\* C39: every job id in the persistent store has exactly one entry in the
\* cron engine, and every entry of the cron engine runs a definition that the
\* store holds.
C39_StoreAndCronAgree ==
    /\ \A k \in 1..Len(sched.store) :
          Cardinality({e \in 1..Len(sched.registered) :
                         sched.registered[e].ID = sched.store[k].ID}) = 1
    /\ \A e \in 1..Len(sched.registered) :
          \E k \in 1..Len(sched.store) : sched.store[k] = sched.registered[e]

\* C39 for the stored jobs with a valid trigger only, after a startup that
\* could list the store: still violated, by a reused id
C39_ValidStoredJobsHaveOneEntry ==
    sched.loaded =>
        \A k \in 1..Len(sched.store) :
            (/\ SpecKind(sched.store[k].Cron) = "cron"
             /\ \A j \in 1..Len(sched.store) : SpecKind(sched.store[j].Cron) = "cron") =>
                Cardinality({e \in 1..Len(sched.registered) :
                               sched.registered[e].ID = sched.store[k].ID}) = 1

-----------------------------------------------------------------------------
(* Claims about the engine of package iron, checked under SpecEngine *)

\* the module the engine is to select for an input: among the modules that
\* detect it, the one of the highest score, the earliest of these
BestModule(modules, input) ==
    LET cands == {k \in 1..Len(modules) : input \in modules[k].detect}
    IN  modules[CHOOSE k \in cands :
                  \A j \in cands : modules[j].score < modules[k].score
                                    \/ (modules[j].score = modules[k].score /\ k <= j)]

\* what Process is to return for an input: the output, and the error
Expected(modules, input) ==
    LET m       == BestModule(modules, TrimSpace(input))
        encoded == ModuleEncode(m, TrimSpace(input))
        decoded == ModuleDecode(m, encoded.s)
    IN  IF encoded.err # Nil THEN [output |-> <<>>, err |-> encoded.err]
        ELSE [output |-> decoded.s, err |-> decoded.err]

\* C37: what Process returns for an input is Decode(Encode(normalized
\* input)) of the module that, among the registered modules that detect the
\* normalized input, has the highest score, the earliest registered of these;
\* it is the passthrough module's, the normalized input, when no other module
\* that detects it has a score above 0.
C37_ProcessSelectsBestModule ==
    LET e == conc.eng
    IN  e.ret.op = "Process" =>
            /\ e.ret.result.Output = Expected(e.modules, e.ret.input).output
            /\ e.ret.err = Expected(e.modules, e.ret.input).err

\* C37 for the calls that were not answered from the cache
C37_ProcessSelectsBestModuleUncached ==
    LET e == conc.eng
    IN  (e.ret.op = "Process" /\ ~e.ret.result.Cached) =>
            /\ e.ret.result.Output = Expected(e.modules, e.ret.input).output
            /\ e.ret.err = Expected(e.modules, e.ret.input).err

=============================================================================
